---- MODULE Spec2Model ----
(***************************************************************************)
(* A model of the TOON codec of packages/toon-parser/src/index.ts:         *)
(* jsonToToon (value -> text) and toonToJson (text -> value).              *)
(*                                                                         *)
(* Text is modelled at the character level: a string is a sequence of      *)
(* one-character strings, a document is a sequence of lines.  Values are   *)
(* tagged records; an object is the ordered sequence of its entries.       *)
(***************************************************************************)
EXTENDS Integers, Sequences, FiniteSets, TLC

(***************************************************************************)
(* Characters                                                              *)
(***************************************************************************)
DQ == "\""
BS == "\\"
LF == "\n"
CR == "\r"
TAB == "\t"
SP == " "

Digits == {"0", "1", "2", "3", "4", "5", "6", "7", "8", "9"}

Letters ==
    {"a", "b", "c", "d", "e", "f", "g", "h", "i", "j", "k", "l", "m",
     "n", "o", "p", "q", "r", "s", "t", "u", "v", "w", "x", "y", "z",
     "A", "B", "C", "D", "E", "F", "G", "H", "I", "J", "K", "L", "M",
     "N", "O", "P", "Q", "R", "S", "T", "U", "V", "W", "X", "Y", "Z"}

\* the characters JavaScript's \s and String.prototype.trim treat as white space
WhiteSpace == {SP, TAB, LF, CR}

DigitVal(c) ==
    CASE c = "0" -> 0 [] c = "1" -> 1 [] c = "2" -> 2 [] c = "3" -> 3
      [] c = "4" -> 4 [] c = "5" -> 5 [] c = "6" -> 6 [] c = "7" -> 7
      [] c = "8" -> 8 [] c = "9" -> 9

DigitChar(d) ==
    CASE d = 0 -> "0" [] d = 1 -> "1" [] d = 2 -> "2" [] d = 3 -> "3"
      [] d = 4 -> "4" [] d = 5 -> "5" [] d = 6 -> "6" [] d = 7 -> "7"
      [] d = 8 -> "8" [] d = 9 -> "9"

(***************************************************************************)
(* String primitives of the JavaScript runtime                             *)
(***************************************************************************)
\* s.slice(from) with a 0-based start: the characters after the first `from`
Slice(s, from) == IF from >= Len(s) THEN <<>> ELSE SubSeq(s, from + 1, Len(s))

\* s.slice(0, to)
Prefix(s, to) == IF to <= 0 THEN <<>> ELSE SubSeq(s, 1, IF to > Len(s) THEN Len(s) ELSE to)

Includes(s, c) == \E i \in 1..Len(s) : s[i] = c

StartsWith(s, c) == Len(s) > 0 /\ s[1] = c

EndsWith(s, c) == Len(s) > 0 /\ s[Len(s)] = c

\* ' '.repeat(n)
Spaces(n) == [i \in 1..n |-> SP]

\* number of leading characters of s that are in set cs
LeadingIn(s, cs) ==
    CHOOSE j \in 0..Len(s) :
        /\ \A k \in 1..j : s[k] \in cs
        /\ j = Len(s) \/ s[j + 1] \notin cs

\* number of trailing characters of s that are in set cs
TrailingIn(s, cs) ==
    CHOOSE j \in 0..Len(s) :
        /\ \A k \in (Len(s) - j + 1)..Len(s) : s[k] \in cs
        /\ j = Len(s) \/ s[Len(s) - j] \notin cs

\* String.prototype.trim
Trim(s) ==
    LET a == LeadingIn(s, WhiteSpace)
    IN  IF a = Len(s) THEN <<>>
        ELSE SubSeq(s, a + 1, Len(s) - TrailingIn(s, WhiteSpace))

\* rawLine.replace(/[ \t]+$/, '')
TrimEnd(s) == Prefix(s, Len(s) - TrailingIn(s, {SP, TAB}))

\* the first position >= i of s that holds no digit (Len(s) + 1 when none)
SkipDigits(s, i) ==
    CHOOSE j \in i..(Len(s) + 1) :
        /\ \A k \in i..(j - 1) : s[k] \in Digits
        /\ j = Len(s) + 1 \/ s[j] \notin Digits

RECURSIVE DigitsToNat(_)
DigitsToNat(ds) ==
    IF ds = <<>> THEN 0
    ELSE 10 * DigitsToNat(SubSeq(ds, 1, Len(ds) - 1)) + DigitVal(ds[Len(ds)])

RECURSIVE NatToDigits(_)
NatToDigits(n) ==
    IF n < 10 THEN <<DigitChar(n)>>
    ELSE Append(NatToDigits(n \div 10), DigitChar(n % 10))

\* parts.join(sep)
RECURSIVE Join(_, _)
Join(parts, sep) ==
    IF parts = <<>> THEN <<>>
    ELSE IF Len(parts) = 1 THEN parts[1]
    ELSE parts[1] \o sep \o Join(Tail(parts), sep)

(***************************************************************************)
(* The regular expressions of index.ts                                     *)
(***************************************************************************)
\* the position after an optional leading '-'
AfterSign(s) == IF StartsWith(s, "-") THEN 2 ELSE 1

\* the position after an optional fraction (\.\d+)? starting at p
AfterFraction(s, p) ==
    IF p <= Len(s) /\ s[p] = "." /\ SkipDigits(s, p + 1) > p + 1
    THEN SkipDigits(s, p + 1) ELSE p

\* the position after an optional exponent ([eE][+-]?\d+)? starting at p
AfterExponent(s, p) ==
    IF p <= Len(s) /\ s[p] \in {"e", "E"}
    THEN LET q == IF p + 1 <= Len(s) /\ s[p + 1] \in {"+", "-"} THEN p + 2 ELSE p + 1
         IN  IF SkipDigits(s, q) > q THEN SkipDigits(s, q) ELSE p
    ELSE p

\* the position after the integer part (0|[1-9]\d*) starting at p; 0 when none
AfterStrictInt(s, p) ==
    IF p > Len(s) THEN 0
    ELSE IF s[p] = "0" THEN p + 1
    ELSE IF s[p] \in Digits THEN SkipDigits(s, p)
    ELSE 0

\* NUMERIC_RE = /^-?(?:0|[1-9]\d*)(?:\.\d+)?(?:[eE][+-]?\d+)?$/
NUMERIC_RE(s) ==
    LET p == AfterStrictInt(s, AfterSign(s))
    IN  p # 0 /\ AfterExponent(s, AfterFraction(s, p)) = Len(s) + 1

\* NUMERIC_LIKE_RE = /^-?\d+(?:\.\d+)?(?:e[+-]?\d+)?$/i
NUMERIC_LIKE_RE(s) ==
    LET p0 == AfterSign(s)
        p == SkipDigits(s, p0)
    IN  p > p0 /\ AfterExponent(s, AfterFraction(s, p)) = Len(s) + 1

\* LEADING_ZERO_RE = /^0\d+$/
LEADING_ZERO_RE(s) ==
    Len(s) >= 2 /\ s[1] = "0" /\ SkipDigits(s, 2) = Len(s) + 1

\* /^-?0\d+/ of parsePrimitiveToken: a prefix test, not anchored at the end
LeadingZeroPrefix(s) ==
    LET p == AfterSign(s)
    IN  p + 1 <= Len(s) /\ s[p] = "0" /\ s[p + 1] \in Digits

\* SAFE_KEY_RE = /^[A-Za-z_][A-Za-z0-9_.]*$/
SAFE_KEY_RE(s) ==
    /\ Len(s) >= 1
    /\ s[1] \in Letters \cup {"_"}
    /\ \A i \in 2..Len(s) : s[i] \in Letters \cup Digits \cup {"_", "."}

(***************************************************************************)
(* The value model.  null, booleans, numbers and strings are the scalars   *)
(* (JsonPrimitive); an array holds a sequence of values; an object holds   *)
(* the sequence of its entries [k, v] in property order.  A finite number  *)
(* is (-1)^neg * mant * 10^exp with mant not divisible by 10 (0 is mant 0, *)
(* exp 0, and -0 is the zero with neg TRUE).                               *)
(***************************************************************************)
Null == [t |-> "null"]
Bool(b) == [t |-> "bool", b |-> b]
Num(neg, mant, exp) == [t |-> "num", neg |-> neg, mant |-> mant, exp |-> exp]
IntNum(n) == IF n < 0 THEN Num(TRUE, 0 - n, 0) ELSE Num(FALSE, n, 0)
NegZero == Num(TRUE, 0, 0)
\* NaN and the infinities: a number that carries no finite magnitude
NonFinite == [t |-> "num", nonfinite |-> TRUE]
Str(s) == [t |-> "str", s |-> s]
Arr(a) == [t |-> "arr", a |-> a]
Obj(o) == [t |-> "obj", o |-> o]
Entry(k, v) == [k |-> k, v |-> v]
EmptyObj == Obj(<<>>)

\* Number.isFinite
IsFiniteNum(v) == "mant" \in DOMAIN v

isPrimitive(v) == v.t \in {"null", "bool", "num", "str"}

isPlainObject(v) == v.t = "obj"

IsArray(v) == v.t = "arr"

\* Object.keys
Keys(o) == [i \in 1..Len(o) |-> o[i].k]

\* Object.prototype.hasOwnProperty.call(obj, k)
HasKey(o, k) == \E i \in 1..Len(o) : o[i].k = k

KeyIndex(o, k) == CHOOSE i \in 1..Len(o) : o[i].k = k

\* obj[k]
Lookup(o, k) == o[KeyIndex(o, k)].v

\* obj[k] = v: an existing property keeps its place, a new one goes last
SetKey(o, k, v) ==
    IF HasKey(o, k) THEN [o EXCEPT ![KeyIndex(o, k)].v = v]
    ELSE Append(o, Entry(k, v))

(***************************************************************************)
(* Numbers as text: String(number) and Number(token)                       *)
(***************************************************************************)
Zeros(n) == [i \in 1..n |-> "0"]

\* String(value) for a finite number (ECMAScript Number::toString, radix 10)
NumberToString(v) ==
    LET ds == NatToDigits(v.mant)
        k == Len(ds)
        n == k + v.exp
        sign == IF v.neg /\ v.mant # 0 THEN <<"-">> ELSE <<>>
        e == n - 1
        expo == <<"e">> \o (IF e < 0 THEN <<"-">> \o NatToDigits(0 - e)
                            ELSE <<"+">> \o NatToDigits(e))
    IN  IF v.mant = 0 THEN <<"0">>
        ELSE IF k <= n /\ n <= 21 THEN sign \o ds \o Zeros(n - k)
        ELSE IF 0 < n /\ n <= 21
             THEN sign \o SubSeq(ds, 1, n) \o <<".">> \o SubSeq(ds, n + 1, k)
        ELSE IF -6 < n /\ n <= 0 THEN sign \o <<"0", ".">> \o Zeros(0 - n) \o ds
        ELSE IF k = 1 THEN sign \o ds \o expo
        ELSE sign \o <<ds[1], ".">> \o SubSeq(ds, 2, k) \o expo

RECURSIVE Normalize(_, _, _)
Normalize(neg, mant, exp) ==
    IF mant = 0 THEN Num(neg, 0, 0)
    ELSE IF mant % 10 = 0 THEN Normalize(neg, mant \div 10, exp + 1)
    ELSE Num(neg, mant, exp)

\* the double nearest to v: Infinity beyond the double range, zero below it
ClampToDouble(v) ==
    LET magnitude == Len(NatToDigits(v.mant)) + v.exp - 1
    IN  IF v.mant = 0 THEN v
        ELSE IF magnitude > 308 THEN NonFinite
        ELSE IF magnitude < -324 THEN Num(v.neg, 0, 0)
        ELSE v

\* the number whose sign ends before p0, integer part before p1, fraction before p2
\* and exponent before p3
NumberFromParts(s, p0, p1, p2, p3) ==
    LET intDs == SubSeq(s, p0, p1 - 1)
        fracDs == IF p2 > p1 THEN SubSeq(s, p1 + 1, p2 - 1) ELSE <<>>
        hasSign == p3 > p2 /\ s[p2 + 1] \in {"+", "-"}
        expDs == IF p3 > p2 THEN SubSeq(s, IF hasSign THEN p2 + 2 ELSE p2 + 1, p3 - 1)
                 ELSE <<>>
        expVal == IF hasSign /\ s[p2 + 1] = "-" THEN 0 - DigitsToNat(expDs)
                  ELSE DigitsToNat(expDs)
    IN  ClampToDouble(Normalize(p0 = 2, DigitsToNat(intDs \o fracDs), expVal - Len(fracDs)))

\* Number(token) for a token that matches NUMERIC_RE
StringToNumber(s) ==
    NumberFromParts(s, AfterSign(s),
                    AfterStrictInt(s, AfterSign(s)),
                    AfterFraction(s, AfterStrictInt(s, AfterSign(s))),
                    AfterExponent(s, AfterFraction(s, AfterStrictInt(s, AfterSign(s)))))

(***************************************************************************)
(* Quoting and escaping                                                    *)
(***************************************************************************)
\* value.replace(/c/g, rep)
RECURSIVE ReplaceAll(_, _, _)
ReplaceAll(s, c, rep) ==
    IF s = <<>> THEN <<>>
    ELSE (IF s[1] = c THEN rep ELSE <<s[1]>>) \o ReplaceAll(Tail(s), c, rep)

escapeString(value) ==
    ReplaceAll(
      ReplaceAll(
        ReplaceAll(
          ReplaceAll(
            ReplaceAll(value, BS, <<BS, BS>>),
            DQ, <<BS, DQ>>),
          LF, <<BS, "n">>),
        CR, <<BS, "r">>),
      TAB, <<BS, "t">>)

Quoted(value) == <<DQ>> \o escapeString(value) \o <<DQ>>

needsQuote(value, activeDelimiter, documentDelimiter) ==
    \/ Len(value) = 0
    \/ value[1] \in WhiteSpace \/ value[Len(value)] \in WhiteSpace
    \/ value = <<"t", "r", "u", "e">>
    \/ value = <<"f", "a", "l", "s", "e">>
    \/ value = <<"n", "u", "l", "l">>
    \/ NUMERIC_LIKE_RE(value)
    \/ LEADING_ZERO_RE(value)
    \/ Includes(value, ":")
    \/ Includes(value, DQ)
    \/ Includes(value, BS)
    \/ \E i \in 1..Len(value) : value[i] \in {"[", "]", "{", "}"}
    \/ \E i \in 1..Len(value) : value[i] \in {LF, CR, TAB}
    \/ Includes(value, activeDelimiter)
    \/ Includes(value, documentDelimiter)
    \/ value = <<"-">>
    \/ StartsWith(value, "-")

encodeString(value, activeDelimiter, documentDelimiter) ==
    IF ~needsQuote(value, activeDelimiter, documentDelimiter) THEN value
    ELSE Quoted(value)

\* the result of a step that may throw: err is "" when it returned val
Ok(val) == [err |-> "", val |-> val]
Throw(msg) == [err |-> msg, val |-> <<>>]

encodePrimitive(value, activeDelimiter, documentDelimiter) ==
    IF value.t = "null" THEN Ok(<<"n", "u", "l", "l">>)
    ELSE IF value.t = "bool"
         THEN Ok(IF value.b THEN <<"t", "r", "u", "e">> ELSE <<"f", "a", "l", "s", "e">>)
    ELSE IF value.t = "num"
         THEN IF ~IsFiniteNum(value) THEN Throw("Numeric values must be finite.")
              ELSE IF value = NegZero THEN Ok(<<"-", "0">>)
              ELSE Ok(NumberToString(value))
    ELSE Ok(encodeString(value.s, activeDelimiter, documentDelimiter))

encodeKey(key, activeDelimiter) ==
    IF SAFE_KEY_RE(key) /\ ~Includes(key, activeDelimiter) THEN key
    ELSE Quoted(key)

\* decodeQuotedString: the characters between the first and the last one of the
\* token, unescaped.  st is <<result, escape, err>> after each character.
RECURSIVE UnescapeFrom(_, _, _, _)
UnescapeFrom(token, i, result, escape) ==
    IF i > Len(token) - 1
    THEN IF escape THEN Throw("Unterminated escape sequence.") ELSE Ok(result)
    ELSE LET ch == token[i]
         IN  IF escape
             THEN IF ch = DQ \/ ch = BS THEN UnescapeFrom(token, i + 1, Append(result, ch), FALSE)
                  ELSE IF ch = "n" THEN UnescapeFrom(token, i + 1, Append(result, LF), FALSE)
                  ELSE IF ch = "r" THEN UnescapeFrom(token, i + 1, Append(result, CR), FALSE)
                  ELSE IF ch = "t" THEN UnescapeFrom(token, i + 1, Append(result, TAB), FALSE)
                  ELSE Throw("Invalid escape sequence.")
             ELSE IF ch = BS THEN UnescapeFrom(token, i + 1, result, TRUE)
             ELSE UnescapeFrom(token, i + 1, Append(result, ch), FALSE)

decodeQuotedString(token) ==
    IF ~EndsWith(token, DQ) THEN Throw("Unterminated string.")
    ELSE UnescapeFrom(token, 2, <<>>, FALSE)

decodeKey(token, delimiter) ==
    LET trimmed == Trim(token)
    IN  IF StartsWith(trimmed, DQ) THEN decodeQuotedString(trimmed)
        ELSE IF ~SAFE_KEY_RE(trimmed) THEN Throw("Invalid key token.")
        ELSE IF Includes(trimmed, delimiter)
             THEN Throw("Key contains active delimiter and must be quoted.")
        ELSE Ok(trimmed)

\* return decodeQuotedString(trimmed)
StringResult(r) == IF r.err # "" THEN r ELSE Ok(Str(r.val))

\* const num = Number(trimmed); if (!Number.isFinite(num)) throw ...; return num
NumberResult(num) == IF ~IsFiniteNum(num) THEN Throw("Invalid numeric value.") ELSE Ok(num)

\* parsePrimitiveToken that reads every unquoted token as a string in lenient mode
parsePrimitiveTokenLenientText(token, delimiter, strict) ==
    LET trimmed == Trim(token)
    IN  IF token = <<>> THEN Ok(Str(<<>>))
        ELSE IF trimmed # token /\ strict
             THEN Throw("Unquoted values may not contain leading or trailing whitespace.")
        ELSE IF StartsWith(trimmed, DQ) THEN StringResult(decodeQuotedString(trimmed))
        ELSE IF ~strict THEN Ok(Str(trimmed))
        ELSE IF trimmed = <<"t", "r", "u", "e">> THEN Ok(Bool(TRUE))
        ELSE IF trimmed = <<"f", "a", "l", "s", "e">> THEN Ok(Bool(FALSE))
        ELSE IF trimmed = <<"n", "u", "l", "l">> THEN Ok(Null)
        ELSE IF LeadingZeroPrefix(trimmed)
             THEN Throw("Numbers with leading zeros must be quoted.")
        ELSE IF NUMERIC_RE(trimmed) THEN NumberResult(StringToNumber(trimmed))
        ELSE IF Includes(trimmed, delimiter)
             THEN Throw("Unquoted value contains the active delimiter.")
        ELSE Ok(Str(trimmed))

\* the scalar a value token stands for (val is a value of the model)
parsePrimitiveToken(token, delimiter, strict) ==
    LET trimmed == Trim(token)
    IN  IF token = <<>> THEN Ok(Str(<<>>))
        ELSE IF trimmed # token /\ strict
             THEN Throw("Unquoted values may not contain leading or trailing whitespace.")
        ELSE IF StartsWith(trimmed, DQ) THEN StringResult(decodeQuotedString(trimmed))
        ELSE IF trimmed = <<"t", "r", "u", "e">> THEN Ok(Bool(TRUE))
        ELSE IF trimmed = <<"f", "a", "l", "s", "e">> THEN Ok(Bool(FALSE))
        ELSE IF trimmed = <<"n", "u", "l", "l">> THEN Ok(Null)
        ELSE IF LeadingZeroPrefix(trimmed)
             THEN Throw("Numbers with leading zeros must be quoted.")
        ELSE IF NUMERIC_RE(trimmed) THEN NumberResult(StringToNumber(trimmed))
        ELSE IF strict /\ Includes(trimmed, delimiter)
             THEN Throw("Unquoted value contains the active delimiter.")
        ELSE Ok(Str(trimmed))

(***************************************************************************)
(* Limits and key safety, shared by both directions.  S is the state of    *)
(* the call in progress: a record with the node counter `nodes` and `err`, *)
(* the message of the ToonError thrown ("" while none is).  Once an error  *)
(* is thrown every later step of the call is skipped.                      *)
(***************************************************************************)
DefaultMaxDepth == 64
DefaultMaxArrayLength == 50000
DefaultMaxTotalNodes == 250000

ProtoKey == <<"_", "_", "p", "r", "o", "t", "o", "_", "_">>
ConstructorKey == <<"c", "o", "n", "s", "t", "r", "u", "c", "t", "o", "r">>
PrototypeKey == <<"p", "r", "o", "t", "o", "t", "y", "p", "e">>

DEFAULT_LIMITS ==
    [maxDepth |-> DefaultMaxDepth,
     maxArrayLength |-> DefaultMaxArrayLength,
     maxTotalNodes |-> DefaultMaxTotalNodes,
     disallowedKeys |-> {ProtoKey, ConstructorKey, PrototypeKey}]

DEFAULT_DELIMITER == ","

Fail(S, msg) == [S EXCEPT !.err = msg]

bumpNodes(S, limits, count) ==
    IF S.err # "" THEN S
    ELSE LET n == S.nodes + count
         IN  IF n > limits.maxTotalNodes
             THEN [S EXCEPT !.nodes = n, !.err = "Node count exceeds limit."]
             ELSE [S EXCEPT !.nodes = n]

enforceLimits(depth, limits, S) ==
    IF S.err # "" THEN S
    ELSE IF depth > limits.maxDepth THEN Fail(S, "Maximum depth exceeded.")
    ELSE bumpNodes(S, limits, 1)

\* validateKeySafety that lets every key through
validateKeySafetySkipped(key, limits, S) == S

validateKeySafety(key, limits, S) ==
    IF S.err # "" THEN S
    ELSE IF key \in limits.disallowedKeys THEN Fail(S, "Disallowed key to prevent prototype pollution.")
    ELSE S

(***************************************************************************)
(* jsonToToon.  The encoder state S also holds `lines`, the lines emitted  *)
(* so far.  A key parameter is <<>> for null and <<k>> for the key k.      *)
(* o is the options record of the call (limits applied).                   *)
(***************************************************************************)
PushLine(S, line) == IF S.err # "" THEN S ELSE [S EXCEPT !.lines = Append(@, line)]

\* indentUnit.repeat(depth)
IndentOf(o, depth) == Spaces(o.indent * depth)

\* the collation rank of a character, for localeCompare on the keys of the model
CharOrder ==
    <<"_", "-", ",", ".", ":", "0", "1", "2", "3", "4", "5", "6", "7", "8", "9",
      "a", "A", "b", "B", "c", "C", "d", "D", "e", "E", "f", "F", "g", "G",
      "h", "H", "i", "I", "j", "J", "k", "K", "l", "L", "m", "M", "n", "N",
      "o", "O", "p", "P", "q", "Q", "r", "R", "s", "S", "t", "T", "u", "U",
      "v", "V", "w", "W", "x", "X", "y", "Y", "z", "Z">>

CharRank(c) ==
    IF \E i \in 1..Len(CharOrder) : CharOrder[i] = c
    THEN CHOOSE i \in 1..Len(CharOrder) : CharOrder[i] = c
    ELSE 0

\* a.localeCompare(b) < 0
RECURSIVE KeyBefore(_, _)
KeyBefore(a, b) ==
    IF b = <<>> THEN FALSE
    ELSE IF a = <<>> THEN TRUE
    ELSE IF a[1] = b[1] THEN KeyBefore(Tail(a), Tail(b))
    ELSE CharRank(a[1]) < CharRank(b[1])

\* [...entries].sort(([a], [b]) => a.localeCompare(b)): a stable sort by key
RECURSIVE SortEntries(_)
SortEntries(entries) ==
    IF entries = <<>> THEN <<>>
    ELSE LET first == CHOOSE i \in 1..Len(entries) :
                        /\ \A j \in 1..Len(entries) : ~KeyBefore(entries[j].k, entries[i].k)
                        /\ \A j \in 1..(i - 1) : KeyBefore(entries[i].k, entries[j].k)
             rest == [j \in 1..(Len(entries) - 1) |->
                        IF j < first THEN entries[j] ELSE entries[j + 1]]
         IN  <<entries[first]>> \o SortEntries(rest)

\* rs[i] = [err, val], the results of a map in order: the first element that throws wins
MapResult(rs) ==
    IF \E i \in 1..Len(rs) : rs[i].err # ""
    THEN Throw(rs[CHOOSE i \in 1..Len(rs) :
                    rs[i].err # "" /\ \A j \in 1..(i - 1) : rs[j].err = ""].err)
    ELSE Ok([i \in 1..Len(rs) |-> rs[i].val])

\* cells.join(delimiter)
JoinResult(cells, delimiter) ==
    IF cells.err # "" THEN cells ELSE Ok(Join(cells.val, <<delimiter>>))

\* arr.map(v => encodePrimitive(v, d, d)).join(d): the first cell that throws wins
EncodeCells(vals, delimiter) ==
    JoinResult(MapResult([i \in 1..Len(vals) |->
                            encodePrimitive(vals[i], delimiter, delimiter)]),
               delimiter)

\* lines.push(prefix + encoded); bumpNodes(count) -- unless the encoding threw
PushEncoded(S, prefix, enc, limits, count) ==
    IF S.err # "" THEN S
    ELSE IF enc.err # "" THEN Fail(S, enc.err)
    ELSE bumpNodes(PushLine(S, prefix \o enc.val), limits, count)

\* the line of a scalar once it is encoded
PushPrimitive(S, key, indent, encodedValue, activeDelimiter, limits) ==
    IF encodedValue.err # "" THEN Fail(S, encodedValue.err)
    ELSE IF key = <<>> THEN PushLine(S, indent \o encodedValue.val)
    ELSE PushLine(validateKeySafety(key[1], limits, S),
                  indent \o encodeKey(key[1], activeDelimiter) \o <<":", SP>>
                         \o encodedValue.val)

primitiveLine(key, value, indent, activeDelimiter, limits, S) ==
    IF S.err # "" THEN S
    ELSE PushPrimitive(S, key, indent, encodePrimitive(value, activeDelimiter, activeDelimiter),
                       activeDelimiter, limits)

\* detectTabular that compares each element's keys with the fields in encounter order
detectTabularByOrder(arr) ==
    LET first == arr[1].o
        fields == Keys(first)
        rowOk(item) ==
            /\ Keys(item.o) = fields
            /\ \A i \in 1..Len(fields) : isPrimitive(Lookup(item.o, fields[i]))
    IN  IF Len(arr) = 0 THEN [ok |-> FALSE]
        ELSE IF ~\A i \in 1..Len(arr) : isPlainObject(arr[i]) THEN [ok |-> FALSE]
        ELSE IF Len(fields) = 0 THEN [ok |-> FALSE]
        ELSE IF ~\A i \in 1..Len(arr) : rowOk(arr[i]) THEN [ok |-> FALSE]
        ELSE [ok |-> TRUE, fields |-> fields, rows |-> arr]

\* detectTabular: ok is FALSE for null
detectTabular(arr) ==
    LET first == arr[1].o
        fields == Keys(first)
        rowOk(item) ==
            /\ Len(item.o) = Len(fields)
            /\ \A i \in 1..Len(fields) :
                  HasKey(item.o, fields[i]) /\ isPrimitive(Lookup(item.o, fields[i]))
    IN  IF Len(arr) = 0 THEN [ok |-> FALSE]
        ELSE IF ~\A i \in 1..Len(arr) : isPlainObject(arr[i]) THEN [ok |-> FALSE]
        ELSE IF Len(fields) = 0 THEN [ok |-> FALSE]
        ELSE IF ~\A i \in 1..Len(arr) : rowOk(arr[i]) THEN [ok |-> FALSE]
        ELSE [ok |-> TRUE, fields |-> fields, rows |-> arr]

\* lines.push(indent + rowValues) of the row loop
PushRowLine(S, indent, rowValues) ==
    IF rowValues.err # "" THEN Fail(S, rowValues.err)
    ELSE PushLine(S, indent \o rowValues.val)

\* the header and the row lines of a tabular array (lines 189-199)
RECURSIVE TabularRows(_, _, _, _, _, _, _)
TabularRows(rows, i, fields, depth, delimiter, o, S) ==
    IF S.err # "" \/ i > Len(rows) THEN S
    ELSE TabularRows(rows, i + 1, fields, depth, delimiter, o,
            PushRowLine(S, IndentOf(o, depth + 1),
                        EncodeCells([f \in 1..Len(fields) |-> Lookup(rows[i].o, fields[f])],
                                    delimiter)))

ArrayHeader(o, depth, headerKey, n) ==
    IndentOf(o, depth) \o headerKey \o <<"[">> \o NatToDigits(n) \o <<"]">>

RECURSIVE encodeValue(_, _, _, _, _, _)
RECURSIVE encodeObject(_, _, _, _, _, _)
RECURSIVE encodeArray(_, _, _, _, _, _)
RECURSIVE EncodeFields(_, _, _, _, _, _, _)
RECURSIVE EncodeItems(_, _, _, _, _, _)
RECURSIVE EncodeItem(_, _, _, _, _, _)
RECURSIVE EncodeRows(_, _, _, _, _, _, _)
RECURSIVE EncodeElements(_, _, _, _, _, _)

encodeValue(input, depth, key, activeDelimiter, o, S) ==
    LET S1 == enforceLimits(depth, o, S)
    IN  IF S.err # "" THEN S
        ELSE IF S1.err # "" THEN S1
        ELSE IF isPrimitive(input)
             THEN primitiveLine(key, input, IndentOf(o, depth), activeDelimiter, o, S1)
        ELSE IF IsArray(input) THEN encodeArray(key, input.a, depth, activeDelimiter, o, S1)
        ELSE IF isPlainObject(input) THEN encodeObject(key, input.o, depth, activeDelimiter, o, S1)
        ELSE Fail(S1, "Unsupported value type")

\* the loop over an object's entries: guarded is TRUE in encodeObject, whose loop
\* calls enforceLimits before each child, FALSE for an expanded-list object item
EncodeFields(entries, i, depth, guarded, activeDelimiter, o, S) ==
    IF S.err # "" \/ i > Len(entries) THEN S
    ELSE EncodeFields(entries, i + 1, depth, guarded, activeDelimiter, o,
            encodeValue(entries[i].v, depth, <<entries[i].k>>, activeDelimiter, o,
                        IF guarded THEN enforceLimits(depth, o, S) ELSE S))

encodeObject(key, obj, depth, activeDelimiter, o, S) ==
    LET S1 == enforceLimits(depth, o, S)
        sortedEntries == IF o.sortKeys THEN SortEntries(obj) ELSE obj
        header == IndentOf(o, depth) \o encodeKey(key[1], activeDelimiter) \o <<":">>
        S2 == IF key # <<>> THEN PushLine(validateKeySafety(key[1], o, S1), header) ELSE S1
        nextDepth == IF key = <<>> THEN depth ELSE depth + 1
    IN  IF S.err # "" THEN S
        ELSE IF Len(sortedEntries) = 0 THEN S2
        ELSE EncodeFields(sortedEntries, 1, nextDepth, TRUE, activeDelimiter, o, S2)

\* one item of an expanded list, after enforceLimits (lines 207-234); dash is the
\* item's prefix with its '-'
EncodeItem(item, dash, itemIndent, activeDelimiter, o, S1) ==
    IF S1.err # "" THEN S1
    ELSE IF isPrimitive(item)
         THEN PushEncoded(S1, dash \o <<SP>>,
                          encodePrimitive(item, activeDelimiter, activeDelimiter), o, 1)
    ELSE IF IsArray(item)
         THEN IF \A j \in 1..Len(item.a) : isPrimitive(item.a[j])
              THEN PushEncoded(S1, dash \o <<SP, "[">> \o NatToDigits(Len(item.a))
                                        \o <<"]", ":">>
                                        \o (IF Len(item.a) > 0 THEN <<SP>> ELSE <<>>),
                               EncodeCells(item.a, activeDelimiter), o, Len(item.a))
              ELSE encodeArray(<<>>, item.a, itemIndent + 1, activeDelimiter, o,
                               PushLine(S1, dash))
    ELSE IF isPlainObject(item)
         THEN EncodeFields(item.o, 1, itemIndent + 1, FALSE, activeDelimiter, o,
                           PushLine(S1, dash))
    ELSE Fail(S1, "Unsupported array item type")

\* the loop over the items of an expanded list (lines 206-235)
EncodeItems(arr, i, itemIndent, activeDelimiter, o, S) ==
    IF S.err # "" \/ i > Len(arr) THEN S
    ELSE EncodeItems(arr, i + 1, itemIndent, activeDelimiter, o,
            EncodeItem(arr[i], IndentOf(o, itemIndent) \o <<"-">>, itemIndent,
                       activeDelimiter, o, enforceLimits(itemIndent, o, S)))

\* a non-scalar array: tabular when detectTabular finds a table, a list otherwise
\* (lines 187-235)
EncodeRows(tabular, header, arr, depth, activeDelimiter, o, S2) ==
    IF tabular.ok
    THEN bumpNodes(
           TabularRows(tabular.rows, 1, tabular.fields, depth, activeDelimiter, o,
                       PushLine(S2, header \o <<"{">>
                                    \o Join([f \in 1..Len(tabular.fields) |->
                                               encodeKey(tabular.fields[f], activeDelimiter)],
                                            <<activeDelimiter>>)
                                    \o <<"}", ":">>)),
           o, Len(arr) * Len(tabular.fields))
    ELSE EncodeItems(arr, 1, depth + 1, activeDelimiter, o, PushLine(S2, header \o <<":">>))

\* encodeArray from the length check on (lines 174-235)
EncodeElements(header, arr, depth, activeDelimiter, o, S2) ==
    IF S2.err # "" THEN S2
    ELSE IF Len(arr) > o.maxArrayLength THEN Fail(S2, "Array length exceeds limit.")
    ELSE IF \A i \in 1..Len(arr) : isPrimitive(arr[i])
         THEN PushEncoded(S2, header \o <<":">> \o (IF Len(arr) > 0 THEN <<SP>> ELSE <<>>),
                          EncodeCells(arr, activeDelimiter), o, Len(arr))
    ELSE EncodeRows(detectTabular(arr), header, arr, depth, activeDelimiter, o, S2)

encodeArray(key, arr, depth, activeDelimiter, o, S) ==
    LET S1 == enforceLimits(depth, o, S)
        headerKey == IF key = <<>> THEN <<>> ELSE encodeKey(key[1], activeDelimiter)
    IN  IF S.err # "" THEN S
        ELSE EncodeElements(ArrayHeader(o, depth, headerKey, Len(arr)), arr, depth,
                            activeDelimiter, o,
                            IF key # <<>> THEN validateKeySafety(key[1], o, S1) ELSE S1)

\* options.x ?? dflt
OptionOr(options, name, dflt) == IF name \in DOMAIN options THEN options[name] ELSE dflt

applyLimits(options) ==
    [maxDepth |-> OptionOr(options, "maxDepth", DEFAULT_LIMITS.maxDepth),
     maxArrayLength |-> OptionOr(options, "maxArrayLength", DEFAULT_LIMITS.maxArrayLength),
     maxTotalNodes |-> OptionOr(options, "maxTotalNodes", DEFAULT_LIMITS.maxTotalNodes),
     disallowedKeys |-> OptionOr(options, "disallowedKeys", DEFAULT_LIMITS.disallowedKeys)]

DefaultIndent == 2

\* jsonToToon(value, options): err, or the lines of the text (text = lines.join('\n'))
jsonToToon(value, options) ==
    LET o == applyLimits(options) @@
             [indent |-> OptionOr(options, "indent", DefaultIndent),
              delimiter |-> OptionOr(options, "delimiter", DEFAULT_DELIMITER),
              sortKeys |-> OptionOr(options, "sortKeys", FALSE)]
    IN  IF o.indent <= 0
        THEN [lines |-> <<>>, nodes |-> 0, err |-> "Indent must be a positive integer."]
        ELSE encodeValue(value, 0, <<>>, o.delimiter, o, [lines |-> <<>>, nodes |-> 0, err |-> ""])

(***************************************************************************)
(* Scanning a line outside quoted spans.  findUnquotedColon, splitKeyHeader,*)
(* classifyTabularLine and splitDelimited run the same loop: a character   *)
(* after a backslash is skipped, a double quote toggles inQuote, and only  *)
(* the other characters met while inQuote is false are looked at.          *)
(***************************************************************************)
\* plain[i]: the loop looks at text[i] as an unquoted character
RECURSIVE ScanFrom(_, _, _, _, _)
ScanFrom(text, i, inQuote, escape, plain) ==
    IF i > Len(text) THEN [plain |-> plain, inQuote |-> inQuote]
    ELSE IF escape THEN ScanFrom(text, i + 1, inQuote, FALSE, Append(plain, FALSE))
    ELSE IF text[i] = BS THEN ScanFrom(text, i + 1, inQuote, TRUE, Append(plain, FALSE))
    ELSE IF text[i] = DQ THEN ScanFrom(text, i + 1, ~inQuote, FALSE, Append(plain, FALSE))
    ELSE ScanFrom(text, i + 1, inQuote, FALSE, Append(plain, ~inQuote))

Scan(text) == ScanFrom(text, 1, FALSE, FALSE, <<>>)

\* the 0-based index of the first unquoted c in text, -1 when there is none
FirstUnquoted(text, c) ==
    LET plain == Scan(text).plain
        hits == {i \in 1..Len(text) : plain[i] /\ text[i] = c}
    IN  IF hits = {} THEN -1
        ELSE (CHOOSE i \in hits : \A j \in hits : i <= j) - 1

findUnquotedColon(text) == FirstUnquoted(text, ":")

classifyTabularLine(line, delimiter) ==
    LET firstColon == FirstUnquoted(line, ":")
        firstDelim == FirstUnquoted(line, delimiter)
    IN  IF firstColon = -1 THEN "row"
        ELSE IF firstDelim = -1 THEN "field"
        ELSE IF firstDelim < firstColon THEN "row" ELSE "field"

\* header is <<>> when the token has no unquoted '['
splitKeyHeader(token) ==
    LET i == FirstUnquoted(token, "[")
    IN  IF i = -1 THEN [rawKey |-> Trim(token), header |-> <<>>]
        ELSE [rawKey |-> Trim(Prefix(token, i)), header |-> <<Trim(Slice(token, i))>>]

RECURSIVE SplitFrom(_, _, _)
SplitFrom(text, start, cuts) ==
    LET later == {c \in cuts : c >= start}
        c == CHOOSE x \in later : \A y \in later : x <= y
    IN  IF later = {} THEN <<SubSeq(text, start, Len(text))>>
        ELSE <<SubSeq(text, start, c - 1)>> \o SplitFrom(text, c + 1, cuts)

splitDelimited(text, delimiter) ==
    LET sc == Scan(text)
        cuts == {i \in 1..Len(text) : sc.plain[i] /\ text[i] = delimiter}
    IN  IF sc.inQuote THEN Throw("Unterminated quoted value.")
        ELSE Ok(SplitFrom(text, 1, cuts))

\* the match once the digits end before position p
HeaderGroups(token, p) ==
    LET hasDelim == p <= Len(token) /\ token[p] \in {",", "|", TAB}
        q == IF p <= Len(token) /\ token[p] \in {",", "|", TAB} THEN p + 1 ELSE p
    IN  IF /\ StartsWith(token, "[")
           /\ p > 2
           /\ q <= Len(token) /\ token[q] = "]"
           /\ q < Len(token) => /\ token[q + 1] = "{"
                                /\ token[Len(token)] = "}"
                                /\ Len(token) - 1 >= q + 2
                                /\ \A i \in (q + 2)..(Len(token) - 1) : token[i] \notin {LF, CR}
        THEN [ok |-> TRUE,
              digits |-> SubSeq(token, 2, p - 1),
              delimiter |-> IF hasDelim THEN <<token[p]>> ELSE <<>>,
              fieldsRaw |-> IF q < Len(token) THEN <<SubSeq(token, q + 2, Len(token) - 1)>>
                            ELSE <<>>]
        ELSE [ok |-> FALSE]

\* token.match(/^\[(\d+)([,\|\t])?\](\{(.+)\})?$/)
HeaderMatch(token) == HeaderGroups(token, SkipDigits(token, 2))

\* fields: splitDelimited(fieldsRaw, delimiter).map(f => decodeKey(f, delimiter))
HeaderFields(head, fields) ==
    IF fields.err # "" THEN [err |-> fields.err]
    ELSE head @@ [fields |-> <<fields.val>>]

\* the keys of the parts of a split, unless the split threw
DecodeKeys(parts, delimiter) ==
    IF parts.err # "" THEN parts
    ELSE MapResult([i \in 1..Len(parts.val) |-> decodeKey(parts.val[i], delimiter)])

\* parseArrayHeader after the match (lines 681-695)
HeaderFromMatch(m, delimiter) ==
    IF ~m.ok THEN [err |-> "Invalid array header."]
    ELSE IF m.fieldsRaw = <<>>
         THEN [err |-> "", length |-> DigitsToNat(m.digits), delimiter |-> delimiter,
               fields |-> <<>>]
    ELSE HeaderFields([err |-> "", length |-> DigitsToNat(m.digits), delimiter |-> delimiter],
                      DecodeKeys(splitDelimited(m.fieldsRaw[1], delimiter), delimiter))

\* match[2] ?? delimiterFallback
HeaderDelimiter(m, delimiterFallback) ==
    IF ~m.ok \/ m.delimiter = <<>> THEN delimiterFallback ELSE m.delimiter[1]

\* parseArrayHeader: fields is <<>> when the header declares none, <<fs>> otherwise
parseArrayHeader(token, delimiterFallback) ==
    HeaderFromMatch(HeaderMatch(token),
                    HeaderDelimiter(HeaderMatch(token), delimiterFallback))

parseArrayHeaderFromList(token) == parseArrayHeader(token, DEFAULT_DELIMITER)

\* countLeadingSpaces: -1 when a tab is met before the first other character
countLeadingSpaces(text) ==
    LET n == LeadingIn(text, {SP})
    IN  IF n < Len(text) /\ text[n + 1] = TAB THEN -1 ELSE n

(***************************************************************************)
(* The decoder's containers.  A frame of the stack `contexts` names the    *)
(* container it fills by that container's path inside the root value (the  *)
(* code holds a reference to it): one step per level, the index of the     *)
(* array item or of the object entry.  A placeholder's path is that of the *)
(* list its value is pushed to.                                            *)
(***************************************************************************)
RECURSIVE GetAt(_, _)
GetAt(v, path) ==
    IF path = <<>> THEN v
    ELSE IF v.t = "arr" THEN GetAt(v.a[path[1]], Tail(path))
    ELSE GetAt(v.o[path[1]].v, Tail(path))

RECURSIVE UpdAt(_, _, _)
UpdAt(v, path, new) ==
    IF path = <<>> THEN new
    ELSE IF v.t = "arr" THEN Arr([v.a EXCEPT ![path[1]] = UpdAt(@, Tail(path), new)])
    ELSE Obj([v.o EXCEPT ![path[1]].v = UpdAt(@, Tail(path), new)])

Frame(type, indent, path, expectedLength, delimiter, fields) ==
    [type |-> type, indent |-> indent, path |-> path, expectedLength |-> expectedLength,
     delimiter |-> delimiter, fields |-> fields, filled |-> FALSE]

ObjectFrame(indent, path) == Frame("object", indent, path, -1, DEFAULT_DELIMITER, <<>>)
ListFrame(indent, path, n, delimiter) == Frame("list", indent, path, n, delimiter, <<>>)
TabularFrame(indent, path, n, delimiter, fields) == Frame("tabular", indent, path, n, delimiter, fields)
PlaceholderFrame(indent, path) == Frame("placeholder", indent, path, -1, DEFAULT_DELIMITER, <<>>)

\* the state of a toonToJson call before its first line; root Null is the code's
\* `root = null`, indentStep 0 its `indentStep = null`; `at` is the path of the value
\* attachValue placed last, `consumed` the flag of the tabular-row loop
NewDecoder ==
    [contexts |-> <<>>, root |-> Null, rootContainer |-> FALSE, indentStep |-> 0,
     nodes |-> 0, err |-> "", errLine |-> 0, at |-> <<>>, consumed |-> FALSE]

\* throw new ToonError(msg, lineNo)
FailAt(D, msg, lineNo) == IF D.err # "" THEN D ELSE [D EXCEPT !.err = msg, !.errLine = lineNo]

\* a shared step that throws with the line number passed to it
AtLine(D, D2, lineNo) == IF D.err = "" /\ D2.err # "" THEN [D2 EXCEPT !.errLine = lineNo] ELSE D2

Top(D) == D.contexts[Len(D.contexts)]

PushFrame(D, frame) == IF D.err # "" THEN D ELSE [D EXCEPT !.contexts = Append(@, frame)]

PopFrame(D) == [D EXCEPT !.contexts = SubSeq(@, 1, Len(@) - 1)]

\* container.value.push(value) for the array at path
PushValue(D, path, value) ==
    IF D.err # "" THEN D
    ELSE [D EXCEPT !.root = UpdAt(@, path, Arr(Append(GetAt(@, path).a, value))),
                   !.at = Append(path, Len(GetAt(D.root, path).a) + 1)]

\* container.value[key] = value for the object at path
SetValue(D, path, key, value) ==
    IF D.err # "" THEN D
    ELSE LET o2 == SetKey(GetAt(D.root, path).o, key, value)
         IN  [D EXCEPT !.root = UpdAt(@, path, Obj(o2)),
                       !.at = Append(path, KeyIndex(o2, key))]

\* finalizeContainer without the branch for lists
finalizeContainerListUnchecked(container, lineNo, strict, D) ==
    IF D.err # "" THEN D
    ELSE IF container.type = "tabular"
         THEN IF strict /\ Len(GetAt(D.root, container.path).a) # container.expectedLength
              THEN FailAt(D, "Tabular array length mismatch.", lineNo) ELSE D
    ELSE IF container.type = "placeholder"
         THEN IF strict /\ ~container.filled
              THEN FailAt(D, "List item is empty where a value was expected.", lineNo) ELSE D
    ELSE D

finalizeContainer(container, lineNo, strict, D) ==
    IF D.err # "" THEN D
    ELSE IF container.type = "tabular"
         THEN IF strict /\ Len(GetAt(D.root, container.path).a) # container.expectedLength
              THEN FailAt(D, "Tabular array length mismatch.", lineNo) ELSE D
    ELSE IF container.type = "list"
         THEN IF strict /\ Len(GetAt(D.root, container.path).a) # container.expectedLength
              THEN FailAt(D, "List length mismatch.", lineNo) ELSE D
    ELSE IF container.type = "placeholder"
         THEN IF strict /\ ~container.filled
              THEN FailAt(D, "List item is empty where a value was expected.", lineNo) ELSE D
    ELSE D

\* ensureRootObject
ensureRootObject(D) ==
    IF D.rootContainer THEN D
    ELSE [D EXCEPT !.rootContainer = TRUE, !.root = EmptyObj,
                   !.contexts = Append(@, ObjectFrame(0, <<>>))]

\* attachValue that assigns to a placeholder whether or not it is filled
attachValueRefill(value, parent, key, lineNo, D) ==
    IF D.err # "" THEN D
    ELSE IF parent = 0
         THEN IF key # <<>> THEN SetValue(ensureRootObject(D), <<>>, key[1], value)
              ELSE IF D.root # Null THEN FailAt(D, "Multiple root values detected.", lineNo)
              ELSE [D EXCEPT !.root = value, !.at = <<>>]
    ELSE IF D.contexts[parent].type = "object"
         THEN IF key = <<>> THEN FailAt(D, "Missing key for object assignment.", 0)
              ELSE SetValue(D, D.contexts[parent].path, key[1], value)
    ELSE IF D.contexts[parent].type = "list"
         THEN PushValue(D, D.contexts[parent].path, value)
    ELSE IF D.contexts[parent].type = "placeholder"
         THEN [PushValue(D, D.contexts[parent].path, value)
                  EXCEPT !.contexts[parent].filled = TRUE]
    ELSE FailAt(D, "Invalid parent container.", 0)

\* attachValue(value, parent, key, lineNo): parent is the index of the parent frame
\* in contexts, 0 for undefined
attachValue(value, parent, key, lineNo, D) ==
    IF D.err # "" THEN D
    ELSE IF parent = 0
         THEN IF key # <<>> THEN SetValue(ensureRootObject(D), <<>>, key[1], value)
              ELSE IF D.root # Null THEN FailAt(D, "Multiple root values detected.", lineNo)
              ELSE [D EXCEPT !.root = value, !.at = <<>>]
    ELSE IF D.contexts[parent].type = "object"
         THEN IF key = <<>> THEN FailAt(D, "Missing key for object assignment.", 0)
              ELSE SetValue(D, D.contexts[parent].path, key[1], value)
    ELSE IF D.contexts[parent].type = "list"
         THEN PushValue(D, D.contexts[parent].path, value)
    ELSE IF D.contexts[parent].type = "placeholder"
         THEN IF D.contexts[parent].filled THEN FailAt(D, "List item already filled.", lineNo)
              ELSE [PushValue(D, D.contexts[parent].path, value)
                       EXCEPT !.contexts[parent].filled = TRUE]
    ELSE FailAt(D, "Invalid parent container.", 0)

(***************************************************************************)
(* toonToJson, one line at a time                                          *)
(***************************************************************************)
\* tokens.map(t => parsePrimitiveToken(t, delimiter, lineNo, strict))
ParseTokens(parts, delimiter, strict) ==
    IF parts.err # "" THEN parts
    ELSE MapResult([i \in 1..Len(parts.val) |->
                      parsePrimitiveToken(parts.val[i], delimiter, strict)])

\* splitDelimited(valueToken, d).map(t => parsePrimitiveToken(t, d, lineNo, strict))
InlineValues(valueToken, delimiter, strict) ==
    ParseTokens(splitDelimited(valueToken, delimiter), delimiter, strict)

\* bumpNodes(count) in toonToJson, which throws with the number of the line
Counted(D, limits, count, lineNo) == AtLine(D, bumpNodes(D, limits, count), lineNo)

\* contexts.push(frame) for the container that was attached last
PushAt(D, frame) == PushFrame(D, [frame EXCEPT !.path = D.at])

\* an inline array `key[n]: v1,v2` (lines 394-403)
AttachInline(key, length, values, lineNo, parent, strict, limits, D1) ==
    IF values.err # "" THEN FailAt(D1, values.err, lineNo)
    ELSE IF strict /\ Len(values.val) # length
         THEN FailAt(D1, "Inline array length mismatch.", lineNo)
    ELSE Counted(attachValue(Arr(values.val), parent, key, lineNo, D1), limits,
                 Len(values.val), lineNo)

\* a line with an array header, once the header is parsed (lines 361-403)
AttachArray(indentLevel, key, h, valueToken, lineNo, parent, strict, limits, D1) ==
    IF h.err # "" THEN FailAt(D1, h.err, lineNo)
    ELSE IF h.length > limits.maxArrayLength
         THEN FailAt(D1, "Array length exceeds limit.", lineNo)
    ELSE IF h.fields # <<>>
         THEN IF valueToken # <<>>
              THEN FailAt(D1, "Tabular array header must not have inline values.", lineNo)
              ELSE PushAt(attachValue(Arr(<<>>), parent, key, lineNo,
                                      Counted(D1, limits, 1, lineNo)),
                          TabularFrame(indentLevel + 1, <<>>, h.length, h.delimiter,
                                       h.fields[1]))
    ELSE IF valueToken = <<>>
         THEN PushAt(attachValue(Arr(<<>>), parent, key, lineNo,
                                 Counted(D1, limits, 1, lineNo)),
                     ListFrame(indentLevel + 1, <<>>, h.length, h.delimiter))
    ELSE AttachInline(key, h.length, InlineValues(valueToken, h.delimiter, strict), lineNo,
                      parent, strict, limits, D1)

\* a scalar `key: value`, once the value is parsed (lines 412-415)
AttachScalar(key, value, lineNo, parent, limits, D1) ==
    IF value.err # "" THEN FailAt(D1, value.err, lineNo)
    ELSE Counted(attachValue(value.val, parent, key, lineNo, D1), limits, 1, lineNo)

\* processKeyValueLine once the key is decoded and checked (lines 359-415)
AttachKeyed(indentLevel, key, header, valueToken, lineNo, parent, strict, limits, D1) ==
    IF D1.err # "" THEN D1
    ELSE IF header # <<>>
         THEN AttachArray(indentLevel, key, parseArrayHeader(header[1], DEFAULT_DELIMITER),
                          valueToken, lineNo, parent, strict, limits, D1)
    ELSE IF valueToken = <<>>
         THEN PushAt(attachValue(EmptyObj, parent, key, lineNo, D1),
                     ObjectFrame(indentLevel + 1, <<>>))
    ELSE AttachScalar(key, parsePrimitiveToken(valueToken, DEFAULT_DELIMITER, strict),
                      lineNo, parent, limits, D1)

\* const key = rawKey ? decodeKey(rawKey, ...) : null, then validateKeySafety(key):
\* dk is the decoded key, Ok(<<>>) standing for the null of an empty rawKey
AttachDecoded(indentLevel, dk, header, valueToken, lineNo, parent, strict, limits, D) ==
    IF dk.err # "" THEN FailAt(D, dk.err, lineNo)
    ELSE AttachKeyed(indentLevel, dk.val, header, valueToken, lineNo, parent, strict, limits,
                     IF dk.val = <<>> THEN D
                     ELSE AtLine(D, validateKeySafety(dk.val[1], limits, D), lineNo))

\* a key as the key parameter of attachValue: <<k>>
KeyResult(dk) == IF dk.err # "" THEN dk ELSE Ok(<<dk.val>>)

processKeyValueLine(indentLevel, keyToken, valueToken, lineNo, parent, strict, limits, D) ==
    LET kh == splitKeyHeader(keyToken)
    IN  IF D.err # "" THEN D
        ELSE AttachDecoded(indentLevel,
                           IF kh.rawKey = <<>> THEN Ok(<<>>)
                           ELSE KeyResult(decodeKey(kh.rawKey, DEFAULT_DELIMITER)),
                           kh.header, valueToken, lineNo, parent, strict, limits, D)

\* `- [n]: v1,v2` (lines 640-651)
PushInline(length, values, listPath, lineNo, strict, limits, D) ==
    IF values.err # "" THEN FailAt(D, values.err, lineNo)
    ELSE IF strict /\ Len(values.val) # length
         THEN FailAt(D, "Inline array length mismatch.", lineNo)
    ELSE PushValue(Counted(D, limits, Len(values.val), lineNo), listPath, Arr(values.val))

\* array list item (header on the same line), once the header is parsed (lines 590-652)
PushArrayItem(h, valueToken, listPath, indentLevel, lineNo, strict, limits, D) ==
    IF h.err # "" THEN FailAt(D, h.err, lineNo)
    ELSE IF h.length > limits.maxArrayLength
         THEN FailAt(D, "Array length exceeds limit.", lineNo)
    ELSE IF h.fields # <<>>
         THEN IF valueToken # <<>>
              THEN FailAt(D, "Tabular header in list item cannot have inline values.", lineNo)
              ELSE PushAt(PushValue(Counted(D, limits, 1, lineNo), listPath, Arr(<<>>)),
                          TabularFrame(indentLevel + 1, <<>>, h.length, h.delimiter,
                                       h.fields[1]))
    ELSE IF valueToken = <<>>
         THEN PushAt(PushValue(Counted(D, limits, 1, lineNo), listPath, Arr(<<>>)),
                     ListFrame(indentLevel + 1, <<>>, h.length, h.delimiter))
    ELSE PushInline(h.length, InlineValues(valueToken, h.delimiter, strict), listPath,
                    lineNo, strict, limits, D)

\* primitive value (lines 664-668)
PushPrimitiveItem(value, listPath, lineNo, limits, D) ==
    IF value.err # "" THEN FailAt(D, value.err, lineNo)
    ELSE PushValue(Counted(D, limits, 1, lineNo), listPath, value.val)

\* parseListItem from `const content` on (lines 574-668); list is the index in
\* contexts of the list frame
PushItem(content, list, indentLevel, lineNo, strict, limits, D) ==
    LET listPath == D.contexts[list].path
        colonIndex == findUnquotedColon(content)
    IN  IF content = <<>> THEN PushFrame(D, PlaceholderFrame(indentLevel + 1, listPath))
        ELSE IF StartsWith(content, "[")
             THEN PushArrayItem(
                    parseArrayHeaderFromList(IF colonIndex = -1 THEN content
                                             ELSE Trim(Prefix(content, colonIndex))),
                    IF colonIndex = -1 THEN <<>> ELSE Trim(Slice(content, colonIndex + 1)),
                    listPath, indentLevel, lineNo, strict, limits, D)
        ELSE IF colonIndex # -1
             \* inline object field or array header
             THEN processKeyValueLine(
                    indentLevel + 1, Trim(Prefix(content, colonIndex)),
                    Trim(Slice(content, colonIndex + 1)), lineNo, Len(D.contexts) + 1,
                    strict, limits,
                    PushAt(PushValue(Counted(D, limits, 1, lineNo), listPath, EmptyObj),
                           ObjectFrame(indentLevel + 1, <<>>)))
        ELSE PushPrimitiveItem(parsePrimitiveToken(content, D.contexts[list].delimiter, strict),
                               listPath, lineNo, limits, D)

\* parseListItem(line, list, ...): list is the index in contexts of the list frame
parseListItem(line, list, indentLevel, lineNo, strict, limits, D) ==
    IF D.err # "" THEN D
    ELSE IF ~StartsWith(Trim(line), "-")
         THEN FailAt(D, "List items must start with -.", lineNo)
    ELSE PushItem(Trim(Slice(Trim(line), 1)), list, indentLevel, lineNo, strict, limits, D)

\* the loop that pops and finalizes every frame deeper than the line (lines 437-444)
RECURSIVE PopDeeper(_, _, _, _)
PopDeeper(indentLevel, lineNo, strict, D) ==
    IF D.err # "" \/ D.contexts = <<>> \/ indentLevel >= Top(D).indent THEN D
    ELSE PopDeeper(indentLevel, lineNo, strict, finalizeContainer(Top(D), lineNo, strict, PopFrame(D)))

\* one cell of a tabular row: the field is checked, then its token parsed (lines 461-468)
RECURSIVE RowFields(_, _, _, _, _, _, _, _)
RECURSIVE RowCell(_, _, _, _, _, _, _, _, _)
RowFields(top, idx, cells, obj, lineNo, strict, limits, D) ==
    IF D.err # "" \/ idx > Len(top.fields) THEN [D |-> D, obj |-> obj]
    ELSE RowCell(top, idx, cells, obj,
                 parsePrimitiveToken(IF idx <= Len(cells) THEN cells[idx] ELSE <<>>,
                                     top.delimiter, strict),
                 lineNo, strict, limits,
                 AtLine(D, validateKeySafety(top.fields[idx], limits, D), lineNo))

\* obj[field] = value, then the next cell
RowCell(top, idx, cells, obj, value, lineNo, strict, limits, D1) ==
    IF D1.err # "" THEN [D |-> D1, obj |-> obj]
    ELSE IF value.err # "" THEN [D |-> FailAt(D1, value.err, lineNo), obj |-> obj]
    ELSE RowFields(top, idx + 1, cells, SetKey(obj, top.fields[idx], value.val), lineNo,
                   strict, limits, Counted(D1, limits, 1, lineNo))

\* top.value.push(obj) and the length check after it (lines 469-473)
PushRow(row, top, lineNo, limits) ==
    LET D2 == PushValue(row.D, top.path, Obj(row.obj))
    IN  IF row.D.err # "" THEN row.D
        ELSE IF Len(GetAt(D2.root, top.path).a) > limits.maxArrayLength
             THEN FailAt(D2, "Tabular array length exceeds limit.", lineNo)
        ELSE [D2 EXCEPT !.consumed = TRUE]

\* TabularRow without the comparison of the cells with the fields
TabularRowWidthUnchecked(line, lineNo, strict, limits, D) ==
    IF splitDelimited(line, Top(D).delimiter).err # ""
    THEN FailAt(D, splitDelimited(line, Top(D).delimiter).err, lineNo)
    ELSE PushRow(RowFields(Top(D), 1, splitDelimited(line, Top(D).delimiter).val, <<>>,
                           lineNo, strict, limits, D),
                 Top(D), lineNo, limits)

\* one tabular row: the object built from the cells, pushed to the table (lines 454-474)
TabularRow(line, lineNo, strict, limits, D) ==
    LET top == Top(D)
        cells == splitDelimited(line, top.delimiter)
    IN  IF cells.err # "" THEN FailAt(D, cells.err, lineNo)
        ELSE IF strict /\ Len(cells.val) # Len(top.fields)
             THEN FailAt(D, "Tabular row width mismatch.", lineNo)
        ELSE PushRow(RowFields(top, 1, cells.val, <<>>, lineNo, strict, limits, D),
                     top, lineNo, limits)

\* tabular row disambiguation (lines 446-487)
RECURSIVE TabularLoop(_, _, _, _, _, _)
TabularLoop(line, indentLevel, lineNo, strict, limits, D) ==
    IF D.err # "" \/ D.contexts = <<>> THEN D
    ELSE IF Top(D).type = "tabular" /\ indentLevel = Top(D).indent
         THEN IF classifyTabularLine(line, Top(D).delimiter) = "row"
              THEN TabularRow(line, lineNo, strict, limits, D)
              ELSE TabularLoop(line, indentLevel, lineNo, strict, limits,
                               PopFrame(finalizeContainer(Top(D), lineNo, strict, D)))
    ELSE D

\* a scalar as the root value (lines 513-518)
SetRoot(value, lineNo, limits, D) ==
    IF value.err # "" THEN FailAt(D, value.err, lineNo)
    ELSE Counted([D EXCEPT !.root = value.val], limits, 1, lineNo)

\* Dispatch without the comparison of the line's level with the indent of an object
\* or tabular parent
DispatchAnyLevel(line, indentLevel, lineNo, strict, limits, D) ==
    LET parent == Len(D.contexts)
        ptype == IF parent = 0 THEN "none" ELSE Top(D).type
        pindent == IF parent = 0 THEN 0 ELSE Top(D).indent
        colonIndex == findUnquotedColon(line)
    IN  IF ptype = "list"
        THEN IF indentLevel # pindent
             THEN FailAt(D, "List items must align under their header.", lineNo)
             ELSE parseListItem(line, parent, indentLevel, lineNo, strict, limits, D)
        ELSE IF ptype = "placeholder" /\ indentLevel # pindent
             THEN FailAt(D, "List item body must indent one level below -.", lineNo)
        ELSE IF colonIndex = -1
             THEN IF D.root = Null /\ parent = 0
                  THEN SetRoot(parsePrimitiveToken(Trim(line), DEFAULT_DELIMITER, strict),
                               lineNo, limits, D)
                  ELSE FailAt(D, "Expected key-value pair.", lineNo)
        ELSE processKeyValueLine(indentLevel, Trim(Prefix(line, colonIndex)),
                                 Trim(Slice(line, colonIndex + 1)), lineNo, parent,
                                 strict, limits, D)

\* the rest of the callback of lines.forEach, from `const parent` on (lines 489-524)
Dispatch(line, indentLevel, lineNo, strict, limits, D) ==
    LET parent == Len(D.contexts)
        ptype == IF parent = 0 THEN "none" ELSE Top(D).type
        pindent == IF parent = 0 THEN 0 ELSE Top(D).indent
        colonIndex == findUnquotedColon(line)
    IN  IF ptype = "list"
        THEN IF indentLevel # pindent
             THEN FailAt(D, "List items must align under their header.", lineNo)
             ELSE parseListItem(line, parent, indentLevel, lineNo, strict, limits, D)
        ELSE IF ptype = "placeholder" /\ indentLevel # pindent
             THEN FailAt(D, "List item body must indent one level below -.", lineNo)
        ELSE IF indentLevel # pindent THEN FailAt(D, "Unexpected indentation level.", lineNo)
        ELSE IF colonIndex = -1
             THEN IF D.root = Null /\ parent = 0
                  THEN SetRoot(parsePrimitiveToken(Trim(line), DEFAULT_DELIMITER, strict),
                               lineNo, limits, D)
                  ELSE FailAt(D, "Expected key-value pair.", lineNo)
        ELSE processKeyValueLine(indentLevel, Trim(Prefix(line, colonIndex)),
                                 Trim(Slice(line, colonIndex + 1)), lineNo, parent,
                                 strict, limits, D)

\* the callback after the tabular-row loop: a consumed row ends it (line 487)
DispatchRest(line, indentLevel, lineNo, strict, limits, D3) ==
    IF D3.err # "" \/ D3.consumed THEN D3
    ELSE Dispatch(line, indentLevel, lineNo, strict, limits, D3)

\* the callback of lines.forEach for one raw line (lines 418-525)
ProcessLine(rawLine, lineNo, strict, limits, D) ==
    LET trimmedEnd == TrimEnd(rawLine)
        indentSpaces == countLeadingSpaces(TrimEnd(rawLine))
        indentStep == IF D.indentStep # 0 THEN D.indentStep
                      ELSE IF countLeadingSpaces(TrimEnd(rawLine)) = 0 THEN 2
                      ELSE countLeadingSpaces(TrimEnd(rawLine))
        D1 == [D EXCEPT !.indentStep =
                 IF D.indentStep # 0 THEN D.indentStep
                 ELSE IF countLeadingSpaces(TrimEnd(rawLine)) = 0 THEN 2
                 ELSE countLeadingSpaces(TrimEnd(rawLine))]
    IN  IF D.err # "" THEN D
        ELSE IF Trim(trimmedEnd) = <<>> THEN D
        ELSE IF indentSpaces = -1 THEN FailAt(D, "Tabs are not allowed for indentation.", lineNo)
        ELSE IF indentSpaces % indentStep # 0
             THEN FailAt(D1, "Inconsistent indentation.", lineNo)
        ELSE IF indentSpaces \div indentStep > limits.maxDepth
             THEN FailAt(D1, "Maximum depth exceeded.", lineNo)
        ELSE [DispatchRest(
                Slice(trimmedEnd, indentSpaces), indentSpaces \div indentStep, lineNo, strict,
                limits,
                TabularLoop(Slice(trimmedEnd, indentSpaces), indentSpaces \div indentStep,
                            lineNo, strict, limits,
                            PopDeeper(indentSpaces \div indentStep, lineNo, strict, D1)))
                EXCEPT !.at = <<>>, !.consumed = FALSE]

\* the loop after the last line (lines 527-530): every frame left is popped and finalized
RECURSIVE FinalizeAll(_, _, _)
FinalizeAll(lineCount, strict, D) ==
    IF D.err # "" \/ D.contexts = <<>> THEN D
    ELSE FinalizeAll(lineCount, strict, finalizeContainer(Top(D), lineCount, strict, PopFrame(D)))

\* the value toonToJson returns (lines 532-535)
Returned(D) == IF D.root = Null THEN EmptyObj ELSE D.root

\* text.split(/\r?\n/) for the text as one character sequence
RECURSIVE SplitLines(_)
SplitLines(text) ==
    LET nl == {i \in 1..Len(text) : text[i] = LF}
        i == CHOOSE x \in nl : \A y \in nl : x <= y
        endCut == IF i > 1 /\ text[i - 1] = CR THEN i - 2 ELSE i - 1
    IN  IF nl = {} THEN <<text>>
        ELSE <<Prefix(text, endCut)>> \o SplitLines(Slice(text, i))

\* toonToJson(text, options) as a whole: the decoder after the last line
RECURSIVE DecodeFrom(_, _, _, _, _)
DecodeFrom(lines, i, strict, limits, D) ==
    IF i > Len(lines) THEN FinalizeAll(Len(lines), strict, D)
    ELSE DecodeFrom(lines, i + 1, strict, limits, ProcessLine(lines[i], i, strict, limits, D))

toonToJson(text, options) ==
    DecodeFrom(SplitLines(text), 1, OptionOr(options, "strict", TRUE), applyLimits(options),
               NewDecoder)

(***************************************************************************)
(* Inputs.  A call is made with a value and an options record; the options *)
(* a caller leaves out are absent from the record.                         *)
(***************************************************************************)
\* the longest array of scalars, the most items of a list, the deepest chain of
\* nested objects and the most lines of a hand-written document
MaxArrLen == 2
MaxItems == 2
MaxChain == 3
MaxLines == 3

NoOptions == <<>>

\* the sequences over S of at most n elements
SeqsUpTo(S, n) == UNION {[1..k -> S] : k \in 0..n}

KA == <<"a">>
KB == <<"b">>
KId == <<"i", "d">>
One == IntNum(1)
Two == IntNum(2)
StrX == Str(<<"x">>)
StrTrue == Str(<<"t", "r", "u", "e">>)
\* a string that begins like an integer with a leading zero
StrZeroOneA == Str(<<"0", "1", "a">>)

Scalars == {Null, Bool(TRUE), Bool(FALSE), One, NegZero, StrX, StrTrue, Str(<<>>)}

\* arrays of scalars
ScalarArrays == {Arr(a) : a \in SeqsUpTo({One}, MaxArrLen)} \cup {Arr(<<One, StrX>>)}

\* objects with scalar fields only
FlatObjects ==
    {EmptyObj,
     Obj(<<Entry(KId, One)>>),
     Obj(<<Entry(KA, One)>>),
     Obj(<<Entry(KA, Two), Entry(KB, StrX)>>),
     Obj(<<Entry(KB, One), Entry(KA, StrX)>>)}

\* what a list may hold
Items ==
    {One, StrX} \cup ScalarArrays \cup FlatObjects
      \cup {Arr(<<Arr(<<One>>)>>), Arr(<<Obj(<<Entry(KA, One)>>)>>),
            Obj(<<Entry(KA, Arr(<<One>>)), Entry(KB, One)>>)}

Arrays == ScalarArrays \cup {Arr(a) : a \in SeqsUpTo(Items, MaxItems)}

\* a chain of k objects nested through the key `next` under the root, around leaf
RECURSIVE Chain(_, _)
Chain(k, leaf) == IF k = 0 THEN leaf ELSE Obj(<<Entry(<<"n", "e", "x", "t">>, Chain(k - 1, leaf))>>)

ChainLeaves == {EmptyObj, Obj(<<Entry(<<"v", "a", "l">>, One)>>)}

\* values with a disallowed key at the root, in a nested object, in an item of an
\* expanded list and in the elements of a tabular array
DisallowedValues ==
    {Obj(<<Entry(ConstructorKey, One)>>),
     Obj(<<Entry(ProtoKey, One)>>),
     Obj(<<Entry(KA, Obj(<<Entry(PrototypeKey, One)>>))>>),
     Obj(<<Entry(KA, Arr(<<One, Obj(<<Entry(ConstructorKey, One)>>)>>))>>),
     Obj(<<Entry(KA, Arr(<<Obj(<<Entry(ConstructorKey, One)>>)>>))>>),
     Obj(<<Entry(KA, Arr(<<Obj(<<Entry(KA, One), Entry(ConstructorKey, One)>>),
                          Obj(<<Entry(KA, Two), Entry(ConstructorKey, Two)>>)>>))>>),
     Obj(<<Entry(ConstructorKey, Arr(<<One>>))>>),
     Obj(<<Entry(ConstructorKey, EmptyObj)>>)}

StructuredValues ==
    Scalars \cup Arrays \cup FlatObjects
      \cup {Obj(<<Entry(KA, v)>>) : v \in Scalars \cup Arrays \cup FlatObjects}
      \cup {Obj(<<Entry(KA, v), Entry(KB, One)>>) : v \in Arrays \cup FlatObjects}
      \cup {Obj(<<Entry(KA, Arr(<<Obj(<<Entry(KB, StrZeroOneA)>>)>>))>>)}
      \cup DisallowedValues

\* the calls of the round trip: <<value, options>>
RoundTripCalls ==
    (StructuredValues \X {NoOptions, [maxArrayLength |-> 1]})
      \cup ({Chain(k, leaf) : k \in 0..MaxChain, leaf \in ChainLeaves}
              \X {NoOptions, [maxDepth |-> 1], [maxDepth |-> 2]})

(***************************************************************************)
(* The state machine: one call of jsonToToon followed by one call of       *)
(* toonToJson on its output (the round trip), or one call of toonToJson on *)
(* a document that arrives line by line.                                   *)
(***************************************************************************)
VARIABLES
    value,      \* the value handed to jsonToToon
    options,    \* the options record of the calls
    pc,         \* "encode", "decode", "returned", "encodeFailed", "decodeFailed", "url", ...
    encoded,    \* jsonToToon's state when it ended: lines, nodes, err
    text,       \* the text it returned
    lines,      \* text.split(/\r?\n/) in toonToJson
    lineNo,     \* the number of lines toonToJson has processed
    dec,        \* toonToJson's state: contexts, root, rootContainer, indentStep, ...
    result,     \* the value toonToJson returned
    urlCalls,   \* the query parameters of the calls of urlToToon, in the order of the calls
    callNo,     \* the number of calls of urlToToon made
    objectPrototype  \* the properties the calls have added to Object.prototype

vars == <<value, options, pc, encoded, text, lines, lineNo, dec, result,
          urlCalls, callNo, objectPrototype>>

urlVars == <<urlCalls, callNo, objectPrototype>>

\* no call of urlToToon is made, and Object.prototype is as the runtime made it
NoUrlCalls == urlCalls = <<>> /\ callNo = 0 /\ objectPrototype = EmptyObj

NotEncoded == [lines |-> <<>>, nodes |-> 0, err |-> ""]

strictMode == OptionOr(options, "strict", TRUE)

\* a thrown ToonError unwinds the call: its locals are gone, the error is all that is left
Thrown(D) == [NewDecoder EXCEPT !.err = D.err, !.errLine = D.errLine]

InitRoundTrip ==
    /\ \E c \in RoundTripCalls : value = c[1] /\ options = c[2]
    /\ pc = "encode"
    /\ encoded = NotEncoded
    /\ text = <<>>
    /\ lines = <<>>
    /\ lineNo = 0
    /\ dec = NewDecoder
    /\ result = Null
    /\ NoUrlCalls

\* what a call leaves once it has ended: a thrown ToonError leaves no lines
EncodeResult(e) == [e EXCEPT !.lines = IF e.err # "" THEN <<>> ELSE e.lines]

DecodeResult(D) == IF D.err # "" THEN Thrown(D) ELSE D

\* jsonToToon(value, options); the caller hands the text to toonToJson, which splits it
Encode ==
    /\ pc = "encode"
    /\ encoded' = EncodeResult(jsonToToon(value, options))
    /\ pc' = IF encoded'.err # "" THEN "encodeFailed" ELSE "decode"
    /\ text' = Join(encoded'.lines, <<LF>>)
    /\ lines' = IF encoded'.err # "" THEN <<>> ELSE SplitLines(text')
    /\ UNCHANGED <<value, options, lineNo, dec, result>>
    /\ UNCHANGED urlVars

\* the callback of lines.forEach for the next line of the text
DecodeLine ==
    /\ pc = "decode"
    /\ lineNo < Len(lines)
    /\ dec' = DecodeResult(ProcessLine(lines[lineNo + 1], lineNo + 1, strictMode,
                                       applyLimits(options), dec))
    /\ pc' = IF dec'.err # "" THEN "decodeFailed" ELSE "decode"
    /\ lineNo' = lineNo + 1
    /\ UNCHANGED <<value, options, encoded, text, lines, result>>
    /\ UNCHANGED urlVars

\* after the last line: the frames left are finalized and the root is returned
EndOfInput ==
    /\ pc = "decode"
    /\ lineNo = Len(lines)
    /\ dec' = DecodeResult(FinalizeAll(Len(lines), strictMode, dec))
    /\ pc' = IF dec'.err # "" THEN "decodeFailed" ELSE "returned"
    /\ result' = IF dec'.err # "" THEN Null ELSE Returned(dec')
    /\ UNCHANGED <<value, options, encoded, text, lines, lineNo>>
    /\ UNCHANGED urlVars

Init == InitRoundTrip

Next == Encode \/ DecodeLine \/ EndOfInput

Spec == Init /\ [][Next]_vars

(***************************************************************************)
(* The round trip of one string.  The string sits where a string value can *)
(* sit: as an object field, as an element of an inline array, as an item   *)
(* of an expanded list and as a cell of a tabular array.                   *)
(***************************************************************************)
\* the longest string built from StrChars
MaxStrLen == 3

StrChars == {"0", "a", SP, "-", ":", ",", DQ, BS}

Strings == SeqsUpTo(StrChars, MaxStrLen)

\* strings for the quoting rules that StrChars does not reach
SpecialStrings ==
    {<<"t", "r", "u", "e">>, <<"f", "a", "l", "s", "e">>, <<"n", "u", "l", "l">>,
     <<"[">>, <<"]">>, <<"{">>, <<"}">>, <<LF>>, <<CR>>, <<TAB>>, <<"a", LF, "b">>,
     <<"|">>, <<"a", "|", "b">>, <<"1", "e", "5">>, <<"0", ".", "5">>, <<"0", "0", "7">>,
     <<"x">>}

K == <<"k">>

FieldOf(s) == Obj(<<Entry(K, Str(s))>>)
InlineOf(s) == Obj(<<Entry(K, Arr(<<Str(s), Str(s)>>))>>)
ItemOf(s) == Obj(<<Entry(K, Arr(<<Str(s), Arr(<<>>)>>))>>)
CellOf(s) == Obj(<<Entry(K, Arr(<<Obj(<<Entry(K, Str(s))>>)>>))>>)

\* the calls of the string round trip: <<value, options>>
StringCalls ==
    ({FieldOf(s) : s \in Strings \cup SpecialStrings} \X {NoOptions})
      \cup ((UNION {{FieldOf(s), InlineOf(s), ItemOf(s), CellOf(s)} :
                      s \in SeqsUpTo(StrChars, 1) \cup SpecialStrings})
              \X {NoOptions, [delimiter |-> "|"]})

InitStr ==
    /\ \E c \in StringCalls : value = c[1] /\ options = c[2]
    /\ pc = "encode"
    /\ encoded = NotEncoded
    /\ text = <<>>
    /\ lines = <<>>
    /\ lineNo = 0
    /\ dec = NewDecoder
    /\ result = Null
    /\ NoUrlCalls

SpecStr == InitStr /\ [][Next]_vars

(***************************************************************************)
(* toonToJson on a document written by hand, in strict and in lenient mode.*)
(***************************************************************************)
NumsKey == <<"n", "u", "m", "s">>

\* `nums[n]:`, the header of a list
ListHeaderLine(n) == NumsKey \o <<"[">> \o NatToDigits(n) \o <<"]", ":">>

\* `nums[n]: 1,1,...` with m values
InlineLine(n, m) == ListHeaderLine(n) \o <<SP>> \o Join([i \in 1..m |-> <<"1">>], <<",">>)

\* `nums[n]{a}:`, the header of a table
TabularHeaderLine(n) == NumsKey \o <<"[">> \o NatToDigits(n) \o <<"]", "{", "a", "}", ":">>

ItemLine == <<SP, SP, "-", SP, "1">>
RowLine == <<SP, SP, "1">>

InlineDoc(n, m) == <<InlineLine(n, m)>>
ListDoc(n, m) == <<ListHeaderLine(n)>> \o [i \in 1..m |-> ItemLine]
TabularDoc(n, m) == <<TabularHeaderLine(n)>> \o [i \in 1..m |-> RowLine]

\* documents that declare n elements and hold m
LengthDocs ==
    {InlineDoc(n, m) : n \in 0..MaxArrLen, m \in 1..(MaxArrLen + 1)}
      \cup {ListDoc(n, m) : n \in 0..MaxArrLen, m \in 0..(MaxArrLen + 1)}
      \cup {TabularDoc(n, m) : n \in 0..MaxArrLen, m \in 0..(MaxArrLen + 1)}

\* `key: 1`
FieldLine(indent, key) == Spaces(indent) \o key \o <<":", SP, "1">>

\* lines that carry a disallowed key where a key is read
DisallowedFieldLines ==
    {FieldLine(0, ConstructorKey),
     FieldLine(0, Quoted(ProtoKey)),
     FieldLine(2, PrototypeKey),
     <<SP, SP, "-", SP>> \o FieldLine(0, ConstructorKey),
     ConstructorKey \o <<"[", "1", "]", ":", SP, "1">>}

\* `a[1]{constructor}:`, a table with a disallowed field
DisallowedTableLine == <<"a", "[", "1", "]", "{">> \o ConstructorKey \o <<"}", ":">>

KeyLines ==
    DisallowedFieldLines
      \cup {DisallowedTableLine, RowLine, <<"a", ":">>, FieldLine(2, KB),
            <<"b", "[", "1", "]", ":">>}

Documents == SeqsUpTo(KeyLines, MaxLines) \cup LengthDocs

InitDoc ==
    /\ \E d \in Documents :
         /\ text = Join(d, <<LF>>)
         /\ lines = SplitLines(Join(d, <<LF>>))
    /\ options \in {NoOptions, [strict |-> FALSE]}
    /\ value = Null
    /\ pc = "decode"
    /\ encoded = NotEncoded
    /\ lineNo = 0
    /\ dec = NewDecoder
    /\ result = Null
    /\ NoUrlCalls

NextDoc == DecodeLine \/ EndOfInput

SpecDoc == InitDoc /\ [][NextDoc]_vars

(***************************************************************************)
(* The round trip under the options a caller passes: the node budget, the  *)
(* blocklist, the key order and the indent width.                          *)
(***************************************************************************)
\* the largest node budget a call is given
MaxNodes == 4

\* values for the node budget: a scalar, an object, an inline array, an array under a
\* key, a table and an expanded list
BudgetValues ==
    {One,
     Obj(<<Entry(KA, One)>>),
     Arr(<<One, One>>),
     Obj(<<Entry(KA, Arr(<<One>>))>>),
     Arr(<<Obj(<<Entry(KA, One)>>)>>),
     Arr(<<One, Arr(<<One>>)>>)}

BudgetCalls == BudgetValues \X {[maxTotalNodes |-> n] : n \in 1..MaxNodes}

\* a Date: an object whose prototype is Date.prototype, with the text its toISOString()
\* returns
DateValue(iso) == [t |-> "date", iso |-> iso]

\* new Date('2023-01-01').toISOString()
IsoText ==
    <<"2", "0", "2", "3", "-", "0", "1", "-", "0", "1", "T",
      "0", "0", ":", "0", "0", ":", "0", "0", ".", "0", "0", "0", "Z">>

\* a Date as the root, as a field value and as an array element
DateValues ==
    {DateValue(IsoText),
     Obj(<<Entry(KA, DateValue(IsoText))>>),
     Arr(<<DateValue(IsoText), DateValue(IsoText)>>),
     Obj(<<Entry(KA, Arr(<<One, DateValue(IsoText)>>))>>)}

DateCalls == DateValues \X {NoOptions}

DangerKey == <<"d", "a", "n", "g", "e", "r">>

\* values for a blocklist the caller passes: its key, the default keys and no
\* disallowed key at all
BlocklistValues ==
    {Obj(<<Entry(DangerKey, One)>>),
     Obj(<<Entry(KA, Obj(<<Entry(DangerKey, One)>>))>>),
     Obj(<<Entry(ConstructorKey, One)>>),
     Obj(<<Entry(ProtoKey, One)>>),
     Obj(<<Entry(KA, Obj(<<Entry(PrototypeKey, One)>>))>>),
     Obj(<<Entry(KA, Arr(<<One, Obj(<<Entry(ConstructorKey, One)>>)>>))>>),
     Obj(<<Entry(KA, One)>>)}

BlocklistCalls == BlocklistValues \X {[disallowedKeys |-> {DangerKey}]}

\* an object whose keys are not in alphabetical order
ObjBA == Obj(<<Entry(KB, One), Entry(KA, StrX)>>)

\* values for the key order: the object at the root, under a key, as an item of an
\* expanded list, as the rows of a table, and with an object of its own in a field
KeyOrderValues ==
    {ObjBA,
     Obj(<<Entry(KB, ObjBA), Entry(KA, One)>>),
     Arr(<<One, ObjBA>>),
     Arr(<<ObjBA, ObjBA>>),
     Obj(<<Entry(KId, Arr(<<ObjBA>>))>>),
     Arr(<<Obj(<<Entry(KB, ObjBA), Entry(KA, One)>>)>>)}

KeyOrderCalls == KeyOrderValues \X {[sortKeys |-> TRUE], [sortKeys |-> FALSE]}

\* the widest indent a call asks for
MaxIndent == 4

\* values for the indent width: no nested line, one and two levels of nested fields,
\* the items of a list and the rows of a table
IndentValues ==
    {Obj(<<Entry(KA, One)>>),
     Obj(<<Entry(KA, Obj(<<Entry(KId, One)>>))>>),
     Chain(2, Obj(<<Entry(KA, One)>>)),
     Obj(<<Entry(KA, Arr(<<One, Arr(<<One>>)>>))>>),
     Obj(<<Entry(KA, Arr(<<Obj(<<Entry(KA, Two), Entry(KB, StrX)>>)>>))>>)}

IndentCalls == IndentValues \X {[indent |-> w] : w \in 1..MaxIndent}

\* a table of one row
OneRowTable == Arr(<<Obj(<<Entry(KA, One)>>)>>)

\* values written and read back under one limit: a table at the root, under a key and
\* under two keys, a list, nested objects, and arrays of two scalars at the root,
\* under a key and as the item of a list
LimitCalls ==
    ({OneRowTable, Obj(<<Entry(KA, OneRowTable)>>),
      Obj(<<Entry(KA, Obj(<<Entry(KB, OneRowTable)>>))>>),
      Arr(<<One, Arr(<<>>)>>), Chain(1, Obj(<<Entry(KA, One)>>)), One}
       \X {[maxDepth |-> d] : d \in 0..2})
      \cup ({Arr(<<One, StrX>>), Obj(<<Entry(KA, Arr(<<One, StrX>>))>>),
              Arr(<<Arr(<<One, StrX>>)>>), Arr(<<One, Arr(<<One>>)>>), OneRowTable}
               \X {[maxArrayLength |-> n] : n \in 1..MaxArrLen})

\* the string `x,y`
StrComma == Str(<<"x", ",", "y">>)

\* values for the delimiter: inline arrays of two scalars at the root and under a key,
\* a table of two fields, a string with a comma as a field and in an array, and values
\* that have nothing to split
DelimiterValues ==
    {Arr(<<One, Two>>),
     Obj(<<Entry(KA, Arr(<<One, StrX>>))>>),
     Arr(<<Obj(<<Entry(KA, Two), Entry(KB, StrX)>>)>>),
     Obj(<<Entry(KA, StrComma)>>),
     Arr(<<StrComma, One>>),
     Obj(<<Entry(KA, One)>>),
     Arr(<<One>>)}

DelimiterCalls == DelimiterValues \X {[delimiter |-> d] : d \in {",", "|", TAB}}

\* the calls made with options: <<value, options>>
OptionCalls ==
    BudgetCalls \cup DateCalls \cup BlocklistCalls \cup KeyOrderCalls \cup IndentCalls
      \cup LimitCalls \cup DelimiterCalls

InitOptions ==
    /\ \E c \in OptionCalls : value = c[1] /\ options = c[2]
    /\ pc = "encode"
    /\ encoded = NotEncoded
    /\ text = <<>>
    /\ lines = <<>>
    /\ lineNo = 0
    /\ dec = NewDecoder
    /\ result = Null
    /\ NoUrlCalls

SpecOptions == InitOptions /\ [][Next]_vars

(***************************************************************************)
(* toonToJson on documents that test its limits and its diagnostics, each  *)
(* with the options it is decoded under.                                   *)
(***************************************************************************)
\* the length documents under a ceiling of one element, strict and lenient
CeilingCalls ==
    LengthDocs \X {[maxArrayLength |-> 1], [maxArrayLength |-> 1, strict |-> FALSE]}

\* documents toonToJson rejects: a header without a key inside an object, a number
\* with a leading zero after a blank line, an indented field under no parent, an
\* inline array and a list shorter than declared, a list cut short by the next field,
\* a header that is no header, a tab in the indent, a bare token after a field and
\* after a root scalar, a disallowed key, two fields and three levels
ErrorDocs ==
    {<<<<"a", ":">>, <<SP, SP, "[", "1", "]", ":", SP, "1">>>>,
     <<<<>>, <<"a", ":", SP, "0", "1">>>>,
     <<FieldLine(0, KA), <<>>, FieldLine(2, KB)>>,
     InlineDoc(2, 1),
     ListDoc(2, 1),
     <<ListHeaderLine(2), ItemLine, FieldLine(0, KA)>>,
     <<<<"a", "[", "x", "]", ":", SP, "1">>>>,
     <<<<TAB, "a", ":", SP, "1">>>>,
     <<FieldLine(0, KA), <<"x">>>>,
     <<<<"1">>, <<"2">>>>,
     <<FieldLine(0, ConstructorKey)>>,
     <<FieldLine(0, KA), FieldLine(0, KB)>>,
     <<<<"a", ":">>, <<SP, SP, "b", ":">>, FieldLine(4, KA)>>}

ErrorCalls ==
    ErrorDocs \X {NoOptions, [strict |-> FALSE], [maxTotalNodes |-> 1], [maxDepth |-> 1]}

FieldNames == <<KA, KB, <<"c">>, <<"d">>>>

\* `nums[n]{a,b,...}:`, the header of a table of n rows with k fields
WidthHeaderLine(n, k) ==
    NumsKey \o <<"[">> \o NatToDigits(n) \o <<"]", "{">>
      \o Join(SubSeq(FieldNames, 1, k), <<",">>) \o <<"}", ":">>

\* a row of m cells, each `1`
CellsLine(m) == <<SP, SP>> \o Join([i \in 1..m |-> <<"1">>], <<",">>)

\* a table of k fields with one row of m cells, and one with a full row before it
WidthDoc(k, m) == <<WidthHeaderLine(1, k), CellsLine(m)>>
WidthDocAfterRow(k, m) == <<WidthHeaderLine(2, k), CellsLine(k), CellsLine(m)>>

WidthDocs ==
    UNION {{WidthDoc(k, m), WidthDocAfterRow(k, m)} :
             k \in 1..MaxArrLen, m \in 1..(MaxArrLen + 1)}

WidthCalls == WidthDocs \X {NoOptions, [strict |-> FALSE]}

\* documents with a line whose indent is no multiple of the step of 2: a field under
\* three spaces and under one, a list item under three
OddIndentDocs ==
    {<<<<"a", ":">>, FieldLine(3, KB)>>,
     <<<<"a", ":">>, FieldLine(1, KB)>>,
     <<ListHeaderLine(1), <<SP>> \o ItemLine>>}

OddIndentCalls == OddIndentDocs \X {NoOptions, [strict |-> FALSE]}

\* the tokens of the scalars with the value each stands for
RootScalars ==
    {[token |-> <<"n", "u", "l", "l">>, val |-> Null],
     [token |-> <<"t", "r", "u", "e">>, val |-> Bool(TRUE)],
     [token |-> <<"1">>, val |-> One],
     [token |-> <<"-", "0">>, val |-> NegZero],
     [token |-> <<"x">>, val |-> StrX],
     [token |-> <<DQ, DQ>>, val |-> Str(<<>>)]}

\* a document whose only non-blank line is the token, alone and between blank lines
ScalarDoc(token) == <<token>>
ScalarDocAmongBlanks(token) == <<<<>>, token, <<SP>>>>

\* the scalar documents, and the documents without a line that is not blank
ScalarDocs ==
    UNION {{ScalarDoc(s.token), ScalarDocAmongBlanks(s.token)} : s \in RootScalars}
      \cup {<<>>, <<<<>>, <<SP, SP>>>>}

ScalarCalls == ScalarDocs \X {NoOptions, [strict |-> FALSE]}

\* `[1]: 1`, an inline array without a key
RootArrayLine == <<"[", "1", "]", ":", SP, "1">>

\* documents with a line at indent 0 after the root scalar or the root array: after the
\* scalar `1` a field, an array and an empty object; after an inline array a field, an
\* array and a scalar; after a list and after a table a field
SecondRootDocs ==
    {<<<<"1">>, FieldLine(0, KA)>>,
     <<<<"1">>, RootArrayLine>>,
     <<<<"x">>, <<"a", ":">>>>,
     <<RootArrayLine, FieldLine(0, KA)>>,
     <<RootArrayLine, RootArrayLine>>,
     <<RootArrayLine, <<"2">>>>,
     <<<<"[", "1", "]", ":">>, ItemLine, FieldLine(0, KA)>>,
     <<<<"[", "1", "]", "{", "a", "}", ":">>, RowLine, FieldLine(0, KB)>>}

SecondRootCalls == SecondRootDocs \X {NoOptions, [strict |-> FALSE]}

\* `  -`, a list item whose value is on the lines below it
DashLine == <<SP, SP, "-">>

\* documents with a bare `-` in the list `nums`: a field below it, two fields, nothing
\* before the end of input, before the next item and before an outdented field, an object
\* and then a field, an inline array and then a field, a bare token, and the same
\* after an item that has its value on its own line
PlaceholderDocs ==
    {<<ListHeaderLine(1), DashLine, FieldLine(4, KA)>>,
     <<ListHeaderLine(1), DashLine, FieldLine(4, KA), FieldLine(4, KB)>>,
     <<ListHeaderLine(1), DashLine>>,
     <<ListHeaderLine(2), DashLine, ItemLine>>,
     <<ListHeaderLine(1), DashLine, FieldLine(0, KB)>>,
     <<ListHeaderLine(1), DashLine, <<SP, SP, SP, SP, "a", ":">>, FieldLine(6, KB),
       FieldLine(4, KB)>>,
     <<ListHeaderLine(1), DashLine, <<SP, SP, SP, SP>> \o RootArrayLine, FieldLine(4, KA)>>,
     <<ListHeaderLine(1), DashLine, <<SP, SP, SP, SP, "1">>>>,
     <<ListHeaderLine(2), ItemLine, DashLine, FieldLine(4, KA)>>,
     <<ListHeaderLine(2), DashLine, FieldLine(4, KA), DashLine, FieldLine(4, KB)>>,
     <<ListHeaderLine(2), DashLine, FieldLine(4, KA), DashLine>>}

PlaceholderCalls == PlaceholderDocs \X {NoOptions, [strict |-> FALSE]}

\* tokens that open with a double quote: a lone quote, no closing quote, a closing
\* quote that is escaped, an escape that is none, and three that are well formed
QuoteTokens ==
    {<<DQ>>,
     <<DQ, "x">>,
     <<DQ, "x", BS, DQ>>,
     <<DQ, BS, "q", DQ>>,
     <<DQ, "x", DQ>>,
     <<DQ, BS, "n", DQ>>,
     <<DQ, BS, BS, DQ>>}

\* a quoted token as the root scalar, as a field's value, as a list item, as the one
\* value of an inline array, as the cell of a table and as a key
QuoteDocs ==
    UNION {{<<q>>,
            <<<<"a", ":", SP>> \o q>>,
            <<ListHeaderLine(1), <<SP, SP, "-", SP>> \o q>>,
            <<ListHeaderLine(1) \o <<SP>> \o q>>,
            <<TabularHeaderLine(1), <<SP, SP>> \o q>>,
            <<q \o <<":", SP, "1">>>>} : q \in QuoteTokens}

QuoteCalls == QuoteDocs \X {NoOptions, [strict |-> FALSE]}

\* lines at the indent of a table's rows: cells, a field, a delimiter after the colon
\* and before it, a colon inside quotes, a colon and no delimiter, and a delimiter and
\* a colon each after a backslash that is in no quotes
TableLines ==
    {<<SP, SP, "1", ",", "2">>,
     <<SP, SP, "b", ":", SP, "1">>,
     <<SP, SP, "b", ":", SP, "1", ",", "2">>,
     <<SP, SP, "1", ",", "b", ":", "2">>,
     <<SP, SP, DQ, "x", ":", "y", DQ, ",", "1">>,
     <<SP, SP, "x", ":", "y">>,
     <<SP, SP, "x", BS, ",", "y", ":", "z">>,
     <<SP, SP, BS, ":", ",", "1">>}

\* a table of two fields that declares one row, with one line and with two lines at
\* the indent of its rows
TableDocs ==
    {<<WidthHeaderLine(1, 2), l>> : l \in TableLines}
      \cup {<<WidthHeaderLine(1, 2), CellsLine(2), l>> : l \in TableLines \ {CellsLine(2)}}

TableCalls == TableDocs \X {NoOptions, [strict |-> FALSE]}

\* the calls of toonToJson: <<document, options>>
TextCalls ==
    CeilingCalls \cup ErrorCalls \cup WidthCalls \cup OddIndentCalls \cup ScalarCalls
      \cup SecondRootCalls \cup PlaceholderCalls \cup QuoteCalls \cup TableCalls

InitText ==
    /\ \E c \in TextCalls :
         /\ text = Join(c[1], <<LF>>)
         /\ lines = SplitLines(Join(c[1], <<LF>>))
         /\ options = c[2]
    /\ value = Null
    /\ pc = "decode"
    /\ encoded = NotEncoded
    /\ lineNo = 0
    /\ dec = NewDecoder
    /\ result = Null
    /\ NoUrlCalls

SpecText == InitText /\ [][NextDoc]_vars

(***************************************************************************)
(* urlToToon (url.ts).  Every object literal of a call inherits from       *)
(* Object.prototype, which all calls share.  H is the heap a call works    *)
(* on: obj, the object the call created, proto, the properties added to    *)
(* Object.prototype, and err, a TypeError thrown.  Of the properties the   *)
(* runtime gives Object.prototype, `__proto__` (an accessor) and           *)
(* `constructor` (a function) are modelled; the key parts of the calls are *)
(* drawn from names that are neither another built-in nor an option name.  *)
(***************************************************************************)
Heap(obj, proto) == [obj |-> obj, proto |-> proto, err |-> ""]

\* `current`: an object reached from obj or from Object.prototype by a path of entries
Ref(inProto, path) == [inProto |-> inProto, path |-> path]

TargetOf(H, cur) == GetAt(IF cur.inProto THEN H.proto ELSE H.obj, cur.path)

IsObjectPrototype(cur) == cur.inProto /\ cur.path = <<>>

\* current[key] = v for a data property: an own property of the object `current` is
WriteAt(H, cur, key, v) ==
    LET written == Obj(SetKey(TargetOf(H, cur).o, key, v))
    IN  IF cur.inProto THEN [H EXCEPT !.proto = UpdAt(H.proto, cur.path, written)]
        ELSE [H EXCEPT !.obj = UpdAt(H.obj, cur.path, written)]

Found(isObject, ref) == [in |-> TRUE, isObject |-> isObject, ref |-> ref]
NotFound == [in |-> FALSE, isObject |-> FALSE, ref |-> Ref(FALSE, <<>>)]

OwnRef(cur, node, part) == Ref(cur.inProto, cur.path \o <<KeyIndex(node.o, part)>>)

\* `part in current` and `typeof current[part] === 'object' && current[part] !== null`,
\* with the object current[part] is: an own property first, then Object.prototype's
ReadPart(H, cur, part) ==
    LET node == TargetOf(H, cur)
    IN  IF HasKey(node.o, part)
        THEN Found(Lookup(node.o, part).t = "obj", OwnRef(cur, node, part))
        ELSE IF IsObjectPrototype(cur)
        THEN IF part \in {ProtoKey, ConstructorKey}     \* null, and a function
             THEN Found(FALSE, cur) ELSE NotFound
        ELSE IF part = ProtoKey THEN Found(TRUE, Ref(TRUE, <<>>))
        ELSE IF HasKey(H.proto.o, part)
        THEN Found(Lookup(H.proto.o, part).t = "obj", Ref(TRUE, <<KeyIndex(H.proto.o, part)>>))
        ELSE IF part = ConstructorKey THEN Found(FALSE, cur)
        ELSE NotFound

\* one round of the loop of assignDeep: [H, cur] after it
DescendTo(H, cur, part) ==
    LET r == ReadPart(H, cur, part)
        made == WriteAt(H, cur, part, EmptyObj)
    IN  IF r.in /\ r.isObject THEN [H |-> H, cur |-> r.ref]
        ELSE IF part = ProtoKey
        THEN [H |-> [H EXCEPT !.err = "Immutable prototype object cannot have their prototype set"],
              cur |-> cur]
        ELSE [H |-> made, cur |-> OwnRef(cur, TargetOf(made, cur), part)]

RECURSIVE Descend(_, _, _, _)
Descend(H, cur, parts, i) ==
    IF H.err # "" \/ i > Len(parts) - 1 THEN [H |-> H, cur |-> cur]
    ELSE Descend(DescendTo(H, cur, parts[i]).H, DescendTo(H, cur, parts[i]).cur, parts, i + 1)

\* key.split(/\[|\]\[|\]|\./).filter(Boolean)
SplitKey(key) ==
    SelectSeq(SplitFrom(key, 1, {i \in 1..Len(key) : key[i] \in {"[", "]", "."}}),
              LAMBDA part : part # <<>>)

TrueText == <<"t", "r", "u", "e">>
FalseText == <<"f", "a", "l", "s", "e">>

\* Number(val) is taken for the decimal literals of NUMERIC_RE
inferType(val) ==
    IF val = TrueText THEN Bool(TRUE)
    ELSE IF val = FalseText THEN Bool(FALSE)
    ELSE IF NUMERIC_RE(Trim(val)) THEN StringToNumber(Trim(val))
    ELSE Str(val)

\* current[last] = typed: the setter of `__proto__` ignores a primitive
AssignLast(at, last, typed) ==
    IF at.H.err # "" \/ last = ProtoKey THEN at.H
    ELSE WriteAt(at.H, at.cur, last, typed)

assignDeep(H, key, val) ==
    LET parts == SplitKey(key)
    IN  IF Len(parts) = 0 THEN H
        ELSE AssignLast(Descend(H, Ref(FALSE, <<>>), parts, 1), parts[Len(parts)],
                        inferType(val))

\* for (const [key, value] of params.entries()) assignDeep(obj, key, value)
RECURSIVE AssignAll(_, _, _)
AssignAll(H, params, i) ==
    IF H.err # "" \/ i > Len(params) THEN H
    ELSE AssignAll(assignDeep(H, params[i][1], params[i][2]), params, i + 1)

\* what a call of urlToToon leaves: the heap, and jsonToToon(obj, options) unless
\* assignDeep threw
UrlOutcome(H, o) ==
    [H |-> H,
     encoded |-> IF H.err # "" THEN NotEncoded ELSE EncodeResult(jsonToToon(H.obj, o)),
     pc |-> IF H.err # "" THEN "urlFailed"
            ELSE IF jsonToToon(H.obj, o).err # "" THEN "encodeFailed" ELSE "urlReturned"]

\* urlToToon for the entries of new URLSearchParams(search), with Object.prototype
\* as the calls before left it
urlToToon(params, o, proto) == UrlOutcome(AssignAll(Heap(EmptyObj, proto), params, 1), o)

Param(key, val) == <<key, val>>

MaxCalls == 2

KX == <<"x">>
InBrackets(part) == <<"[">> \o part \o <<"]">>

UrlKeys ==
    {KA, KA \o InBrackets(KB), KA \o <<".">> \o KB, KA \o InBrackets(KX),
     ProtoKey, ProtoKey \o InBrackets(KX), ProtoKey \o InBrackets(KA) \o InBrackets(KB),
     KA \o InBrackets(ProtoKey) \o InBrackets(KX),
     ProtoKey \o InBrackets(ProtoKey) \o InBrackets(KX),
     ConstructorKey \o InBrackets(KX), ProtoKey \o InBrackets(ConstructorKey),
     ConstructorKey \o InBrackets(PrototypeKey) \o InBrackets(KX),
     PrototypeKey \o InBrackets(KX)}

UrlValues == {<<"1">>, TrueText, <<"v">>}

\* the queries: one parameter, and two parameters with the key `a` first
UrlQueries ==
    {<<Param(k, <<"1">>)>> : k \in UrlKeys}
      \cup {<<Param(KA, v)>> : v \in UrlValues}
      \cup {<<Param(KA, <<"1">>), Param(k, <<"v">>)>> : k \in UrlKeys}

InitUrl ==
    /\ urlCalls \in UNION {[1..n -> UrlQueries] : n \in 1..MaxCalls}
    /\ callNo = 0
    /\ objectPrototype = EmptyObj
    /\ value = EmptyObj
    /\ options = NoOptions
    /\ pc = "url"
    /\ encoded = NotEncoded
    /\ text = <<>>
    /\ lines = <<>>
    /\ lineNo = 0
    /\ dec = NewDecoder
    /\ result = Null

\* the next call: urlToToon(urlString, options)
UrlToToon ==
    /\ pc \in {"url", "urlReturned", "urlFailed", "encodeFailed"}
    /\ callNo < Len(urlCalls)
    /\ LET out == urlToToon(urlCalls[callNo + 1], options, objectPrototype)
       IN  /\ value' = out.H.obj
           /\ objectPrototype' = out.H.proto
           /\ encoded' = out.encoded
           /\ pc' = out.pc
           /\ text' = Join(out.encoded.lines, <<LF>>)
    /\ callNo' = callNo + 1
    /\ UNCHANGED <<options, lines, lineNo, dec, result, urlCalls>>

NextUrl == UrlToToon

SpecUrl == InitUrl /\ [][NextUrl]_vars

(***************************************************************************)
(* Properties.                                                             *)
(***************************************************************************)
\* the values of pc once the calls have ended
CallsEnded == {"returned", "encodeFailed", "decodeFailed"}

activeLimits == applyLimits(options)

\* some object of v has a key in keys
RECURSIVE HasDisallowedKey(_, _)
HasDisallowedKey(v, keys) ==
    IF v.t = "obj"
    THEN \E i \in 1..Len(v.o) : v.o[i].k \in keys \/ HasDisallowedKey(v.o[i].v, keys)
    ELSE IF v.t = "arr" THEN \E i \in 1..Len(v.a) : HasDisallowedKey(v.a[i], keys)
    ELSE FALSE

\* some array of v has more than n elements
RECURSIVE HasLongArray(_, _)
HasLongArray(v, n) ==
    IF v.t = "obj" THEN \E i \in 1..Len(v.o) : HasLongArray(v.o[i].v, n)
    ELSE IF v.t = "arr" THEN Len(v.a) > n \/ \E i \in 1..Len(v.a) : HasLongArray(v.a[i], n)
    ELSE FALSE

\* a and b are the same value: the order of an object's keys does not count
RECURSIVE SameValue(_, _)
SameValue(a, b) ==
    IF a.t # b.t THEN FALSE
    ELSE IF a.t = "arr"
         THEN Len(a.a) = Len(b.a) /\ \A i \in 1..Len(a.a) : SameValue(a.a[i], b.a[i])
    ELSE IF a.t = "obj"
         THEN /\ Len(a.o) = Len(b.o)
              /\ \A i \in 1..Len(a.o) :
                   HasKey(b.o, a.o[i].k) /\ SameValue(a.o[i].v, Lookup(b.o, a.o[i].k))
    ELSE a = b

\* the value is an object with one field that holds an array
IsArrayField(v) == v.t = "obj" /\ Len(v.o) = 1 /\ v.o[1].v.t = "arr"

\* a non-empty array of non-empty objects that have the key set of the first one and
\* scalar values only
TabularEligible(arr) ==
    /\ Len(arr) > 0
    /\ \A i \in 1..Len(arr) :
         /\ arr[i].t = "obj"
         /\ Len(arr[i].o) > 0
         /\ {arr[i].o[j].k : j \in 1..Len(arr[i].o)} = {arr[1].o[j].k : j \in 1..Len(arr[1].o)}
         /\ \A j \in 1..Len(arr[i].o) : isPrimitive(arr[i].o[j].v)

\* `key[n]{f1,...,fk}:` for keys and fields that need no quotes
TabularHeaderText(key, n, fields) ==
    key \o <<"[">> \o NatToDigits(n) \o <<"]", "{">> \o Join(fields, <<",">>) \o <<"}", ":">>

\* C1: when a value without disallowed keys is encoded and the text decoded, both with
\* default options, the calls end with toonToJson returning a value equal to it
RoundTripReturnsValue ==
    (pc \in CallsEnded /\ options = NoOptions
       /\ ~HasDisallowedKey(value, activeLimits.disallowedKeys))
      => (pc = "returned" /\ SameValue(result, value))

\* C2: jsonToToon throws, and returns no text, whenever an object anywhere in the value
\* has a key of the active disallowed-key set
DisallowedKeysStopEncoding ==
    (pc # "encode" /\ HasDisallowedKey(value, activeLimits.disallowedKeys))
      => (encoded.err # "" /\ text = <<>>)

\* C5: a tabular-eligible array under a key is emitted as the header
\* `key[n]{f1,...,fk}:` and n rows one level deeper, and decoding the text returns
\* the array of n objects, field for field
TabularArraysRoundTrip ==
    (IsArrayField(value) /\ TabularEligible(value.o[1].v.a) /\ options = NoOptions
       /\ ~HasDisallowedKey(value, activeLimits.disallowedKeys))
      => /\ pc # "encode" =>
              /\ encoded.err = ""
              /\ Len(encoded.lines) = Len(value.o[1].v.a) + 1
              /\ encoded.lines[1] = TabularHeaderText(value.o[1].k, Len(value.o[1].v.a),
                                                      Keys(value.o[1].v.a[1].o))
              /\ \A i \in 2..Len(encoded.lines) :
                   countLeadingSpaces(encoded.lines[i]) = DefaultIndent
         /\ pc \in CallsEnded => (pc = "returned" /\ SameValue(result, value))

\* C8: an array of objects that is not tabular-eligible is emitted with one `-` line
\* per object, and decoding the text in strict mode returns the array with every
\* object holding all of its fields
ObjectItemsRoundTrip ==
    (IsArrayField(value) /\ ~TabularEligible(value.o[1].v.a) /\ options = NoOptions
       /\ Len(value.o[1].v.a) > 0
       /\ (\A i \in 1..Len(value.o[1].v.a) : value.o[1].v.a[i].t = "obj")
       /\ ~HasDisallowedKey(value, activeLimits.disallowedKeys))
      => /\ pc # "encode" =>
              /\ encoded.err = ""
              /\ Cardinality({i \in 1..Len(encoded.lines) : encoded.lines[i] = <<SP, SP, "-">>})
                   = Len(value.o[1].v.a)
         /\ pc \in CallsEnded => (pc = "returned" /\ SameValue(result, value))

\* C9: for a root object with k objects nested one inside the other under it,
\* jsonToToon throws the depth error exactly when k > maxDepth
DepthLimitAtChainLength ==
    \A k \in 0..MaxChain, leaf \in ChainLeaves :
      (pc # "encode" /\ value = Chain(k, leaf))
        => ((encoded.err = "Maximum depth exceeded.") <=> (k > activeLimits.maxDepth))

\* C10: jsonToToon throws whenever an array anywhere in the value has more than
\* maxArrayLength elements
LongArraysStopEncoding ==
    (pc # "encode" /\ HasLongArray(value, activeLimits.maxArrayLength)) => encoded.err # ""

\* the string of a call of the string round trip, and where its token is emitted:
\* the line, and the number of characters before the token
StringIn(v) ==
    LET f == v.o[1].v
    IN  IF f.t = "str" THEN f.s
        ELSE IF f.a[1].t = "str" THEN f.a[1].s
        ELSE f.a[1].o[1].v.s

TokenLine(v) ==
    LET f == v.o[1].v
    IN  IF f.t = "str" THEN 1
        ELSE IF f.a[1].t = "str" /\ f.a[2].t = "str" THEN 1
        ELSE 2

TokenStart(v) ==
    LET f == v.o[1].v
    IN  IF f.t = "str" THEN 3
        ELSE IF f.a[1].t = "str" /\ f.a[2].t = "str" THEN 6
        ELSE IF f.a[1].t = "str" THEN 4
        ELSE 2

\* the strings that must be quoted
MustBeQuoted(s, delimiter) ==
    \/ s = <<>>
    \/ s \in {<<"t", "r", "u", "e">>, <<"f", "a", "l", "s", "e">>, <<"n", "u", "l", "l">>}
    \/ NUMERIC_LIKE_RE(s)
    \/ (Len(s) > 1 /\ s[1] = "0" /\ \A i \in 1..Len(s) : s[i] \in Digits)
    \/ s[1] \in WhiteSpace \/ s[Len(s)] \in WhiteSpace
    \/ s[1] = "-"
    \/ \E i \in 1..Len(s) :
         s[i] \in {":", DQ, BS, "[", "]", "{", "}", LF, CR, TAB, delimiter}

\* C6: a string that must be quoted is emitted between double quotes, and decoding
\* the text returns the identical string in its place
QuotedStringsComeBack ==
    (pc # "encode" /\ MustBeQuoted(StringIn(value), OptionOr(options, "delimiter", ",")))
      => /\ encoded.err = ""
         /\ Len(encoded.lines[TokenLine(value)]) >= TokenStart(value) + 2
         /\ encoded.lines[TokenLine(value)][TokenStart(value) + 1] = DQ
         /\ encoded.lines[TokenLine(value)][Len(encoded.lines[TokenLine(value)])] = DQ
         /\ pc \in CallsEnded => (pc = "returned" /\ result = value)

\* C7: for every string s, encoding {k: s} and decoding the text, both with default
\* options, returns {k: s}
StringFieldsRoundTrip ==
    (pc \in CallsEnded /\ options = NoOptions /\ value.o[1].v.t = "str")
      => (pc = "returned" /\ result = value)

\* C3: no object of a value toonToJson returns has a disallowed key, in strict and in
\* lenient mode: no document is accepted that has a disallowed key as the key of a
\* field, of an array header or of a list item, or as the field of a table with a row
NoDisallowedKeyDecoded ==
    pc = "returned"
      => /\ ~HasDisallowedKey(result, activeLimits.disallowedKeys)
         /\ \A i \in 1..Len(lines) :
              /\ lines[i] \notin DisallowedFieldLines
              /\ ~(lines[i] = DisallowedTableLine /\ i < Len(lines) /\ lines[i + 1] = RowLine)

\* lenient mode has rejected the row of a table whose field is disallowed
DisallowedRowRejectedLenient ==
    /\ pc = "decodeFailed"
    /\ ~strictMode
    /\ lines = <<DisallowedTableLine, RowLine>>
    /\ dec.err = "Disallowed key to prevent prototype pollution."

LengthMismatchErrors ==
    {"Inline array length mismatch.", "List length mismatch.", "Tabular array length mismatch."}

\* for the document doc, which declares n elements under `nums` and holds elements
LengthChecked(doc, n, elements) ==
    (lines = doc /\ pc \in CallsEnded)
      => IF strictMode /\ n # Len(elements)
         THEN pc = "decodeFailed" /\ dec.err \in LengthMismatchErrors
         ELSE pc = "returned" /\ result = Obj(<<Entry(NumsKey, Arr(elements))>>)

\* C4: strict mode rejects with a length-mismatch error an inline array, a list and a
\* table that hold another number of elements than their header declares; lenient
\* mode accepts the same document and returns the array with the elements present
LengthEnforcedInStrictOnly ==
    \A n \in 0..MaxArrLen, m \in 0..(MaxArrLen + 1) :
      /\ m > 0 => LengthChecked(InlineDoc(n, m), n, [i \in 1..m |-> One])
      /\ LengthChecked(ListDoc(n, m), n, [i \in 1..m |-> One])
      /\ LengthChecked(TabularDoc(n, m), n, [i \in 1..m |-> Obj(<<Entry(KA, One)>>)])

\* lenient mode has returned {nums: [1]} for `nums[2]: 1`
ShortArrayAcceptedLenient ==
    /\ pc = "returned"
    /\ ~strictMode
    /\ lines = InlineDoc(2, 1)
    /\ result = Obj(<<Entry(NumsKey, Arr(<<One>>))>>)

\* the number of scalar values of v: scalar fields, scalar items and the cells of rows
RECURSIVE ScalarCount(_)
ScalarCount(v) ==
    IF v.t = "arr"
    THEN IF v.a = <<>> THEN 0 ELSE ScalarCount(v.a[1]) + ScalarCount(Arr(Tail(v.a)))
    ELSE IF v.t = "obj"
         THEN IF v.o = <<>> THEN 0
              ELSE ScalarCount(v.o[1].v) + ScalarCount(Obj(Tail(v.o)))
    ELSE 1

\* C11: jsonToToon throws the node-count error exactly when the number of scalar
\* values and row cells of the value exceeds maxTotalNodes
NodeBudgetCountsScalars ==
    (pc # "encode" /\ value \in BudgetValues /\ DOMAIN options = {"maxTotalNodes"})
      => ((encoded.err = "Node count exceeds limit.")
            <=> (ScalarCount(value) > activeLimits.maxTotalNodes))

\* v with every Date replaced by the string of its ISO-8601 text
RECURSIVE DatesAsStrings(_)
DatesAsStrings(v) ==
    IF v.t = "date" THEN Str(v.iso)
    ELSE IF v.t = "arr" THEN Arr([i \in 1..Len(v.a) |-> DatesAsStrings(v.a[i])])
    ELSE IF v.t = "obj"
         THEN Obj([i \in 1..Len(v.o) |-> Entry(v.o[i].k, DatesAsStrings(v.o[i].v))])
    ELSE v

\* C13: jsonToToon encodes a Date at the root, in a field or in an array as its quoted
\* ISO-8601 string without throwing, and toonToJson of the text returns that string in
\* the Date's place
DatesEncodeAsIsoStrings ==
    value \in DateValues
      => /\ pc # "encode" =>
              /\ encoded.err = ""
              /\ \E i \in 1..Len(encoded.lines) :
                   \E j \in 1..Len(encoded.lines[i]) :
                     SubSeq(encoded.lines[i], j, j + Len(Quoted(IsoText)) - 1) = Quoted(IsoText)
         /\ pc \in CallsEnded => (pc = "returned" /\ result = DatesAsStrings(value))

\* the default blocklist with the keys the caller passed
ExtendedBlocklist == DEFAULT_LIMITS.disallowedKeys \cup options.disallowedKeys

\* C15: with a disallowedKeys option, jsonToToon throws for the caller's keys and for
\* the default keys alike, and toonToJson returns no value that holds one of them
CallerKeysExtendBlocklist ==
    "disallowedKeys" \in DOMAIN options
      => /\ (pc # "encode" /\ HasDisallowedKey(value, ExtendedBlocklist))
              => encoded.err = "Disallowed key to prevent prototype pollution."
         /\ pc = "returned" => ~HasDisallowedKey(result, ExtendedBlocklist)

\* the keys a line of the text shows, left to right: the key before its colon or
\* array header, then the fields between the braces of a tabular header
KeysOfLine(line) ==
    LET body == Slice(line, LeadingIn(line, {SP, "-"}))
        colon == FirstUnquoted(body, ":")
        bracket == FirstUnquoted(body, "[")
        brace == FirstUnquoted(body, "{")
        keyEnd == IF bracket # -1 /\ bracket < colon THEN bracket ELSE colon
    IN  IF colon = -1 THEN <<>>
        ELSE (IF keyEnd > 0 THEN <<Prefix(body, keyEnd)>> ELSE <<>>)
               \o (IF brace # -1 /\ brace < colon
                   THEN SplitFrom(SubSeq(body, brace + 2, colon - 1), 1,
                                  {i \in 1..(colon - brace - 2) : body[brace + 1 + i] = ","})
                   ELSE <<>>)

\* the keys the text shows, in the order of the text
RECURSIVE KeysOfText(_)
KeysOfText(ls) == IF ls = <<>> THEN <<>> ELSE KeysOfLine(ls[1]) \o KeysOfText(Tail(ls))

\* the keys of v in the order its text is to show them: every object's keys in
\* alphabetical order when sorted, in property order otherwise, each followed by the
\* keys of its value; a table shows the keys of its first row once
RECURSIVE KeysInOrder(_, _)
KeysInOrder(v, sorted) ==
    IF v.t = "obj"
    THEN IF v.o = <<>> THEN <<>>
         ELSE LET es == IF sorted THEN SortEntries(v.o) ELSE v.o
              IN  <<es[1].k>> \o KeysInOrder(es[1].v, sorted)
                    \o KeysInOrder(Obj(Tail(es)), sorted)
    ELSE IF v.t = "arr"
         THEN IF v.a = <<>> THEN <<>>
              ELSE IF TabularEligible(v.a)
                   THEN Keys(IF sorted THEN SortEntries(v.a[1].o) ELSE v.a[1].o)
              ELSE KeysInOrder(v.a[1], sorted) \o KeysInOrder(Arr(Tail(v.a)), sorted)
    ELSE <<>>

\* C16: with sortKeys true the text shows the keys of every object in alphabetical
\* order, the fields of list items and of tabular headers included; with sortKeys
\* false it shows them in property order
SortKeysOrdersEveryObject ==
    (pc # "encode" /\ "sortKeys" \in DOMAIN options)
      => /\ encoded.err = ""
         /\ KeysOfText(encoded.lines) = KeysInOrder(value, options.sortKeys)

\* C19: toonToJson takes the indent step from the first indented line, so the text
\* jsonToToon writes with indent w decodes to the value it was written from, for
\* every positive w
EveryIndentWidthDecodes ==
    (pc \in CallsEnded /\ "indent" \in DOMAIN options)
      => (pc = "returned" /\ SameValue(result, value))

\* C12: no array of a value toonToJson returns has more than maxArrayLength elements,
\* in strict and in lenient mode
NoLongArrayDecoded ==
    pc = "returned" => ~HasLongArray(result, activeLimits.maxArrayLength)

\* C14: every ToonError toonToJson throws carries a line number, the 1-based number
\* of the line the decoder was at, blank lines counted
ErrorsCarryTheirLine ==
    pc = "decodeFailed" => (dec.errLine = lineNo /\ dec.errLine \in 1..Len(lines))

\* the object a row of m cells `1` gives under k fields: a field without a cell holds
\* the empty string, a cell without a field is dropped
RowObject(k, m) ==
    Obj([i \in 1..k |-> Entry(FieldNames[i], IF i <= m THEN One ELSE Str(<<>>))])

\* for the document doc, whose last row has m cells under k fields, decoded under the
\* default limits
WidthChecked(doc, k, m, rows) ==
    (lines = doc /\ pc \in CallsEnded /\ DOMAIN options \subseteq {"strict"})
      => IF strictMode /\ k # m
         THEN /\ pc = "decodeFailed"
              /\ dec.err = "Tabular row width mismatch."
              /\ dec.errLine = Len(doc)
         ELSE pc = "returned" /\ result = Obj(<<Entry(NumsKey, Arr(rows))>>)

\* C17: strict mode rejects with the width-mismatch error every row whose number of
\* cells differs from the number of fields; lenient mode accepts the row, gives the
\* fields without a cell the empty string and drops the cells beyond the fields
RowWidthEnforcedInStrictOnly ==
    \A k \in 1..MaxArrLen, m \in 1..(MaxArrLen + 1) :
      /\ WidthChecked(WidthDoc(k, m), k, m, <<RowObject(k, m)>>)
      /\ WidthChecked(WidthDocAfterRow(k, m), k, m, <<RowObject(k, k), RowObject(k, m)>>)

\* lenient mode has returned {nums: [{a: 1, b: ""}]} for a row of one cell under two
\* fields
ShortRowAcceptedLenient ==
    /\ pc = "returned"
    /\ ~strictMode
    /\ lines = WidthDoc(2, 1)
    /\ result = Obj(<<Entry(NumsKey, Arr(<<Obj(<<Entry(KA, One), Entry(KB, Str(<<>>))>>)>>))>>)

\* C18: lenient mode rejects no document for a line whose indent is not a multiple
\* of the indent step
LenientIgnoresOddIndent ==
    (pc = "decodeFailed" /\ ~strictMode) => dec.err # "Inconsistent indentation."

\* no line of the text is more than blanks
AllLinesBlank == \A i \in 1..Len(lines) : Trim(TrimEnd(lines[i])) = <<>>

\* C20: a document whose only non-blank line is a scalar token returns exactly that
\* scalar, null included, and the empty object is returned only for a document no
\* line of which establishes a root
RootScalarReturned ==
    /\ \A s \in RootScalars :
         (pc \in CallsEnded /\ lines \in {ScalarDoc(s.token), ScalarDocAmongBlanks(s.token)})
           => (pc = "returned" /\ result = s.val)
    /\ (pc = "returned" /\ result = EmptyObj) => AllLinesBlank

\* the line is more than blanks
NonBlank(line) == Trim(TrimEnd(line)) # <<>>

\* the line carries no key: a bare token, or an array header with nothing before it
Keyless(line) ==
    \/ findUnquotedColon(line) = -1
    \/ splitKeyHeader(Trim(Prefix(line, findUnquotedColon(line)))).rawKey = <<>>

\* the first line of ls that is not blank is line i, it is at indent 0 and assigns a
\* root scalar or a root array, and a later line that is not blank is at indent 0 too
SecondRootAfter(ls, i) ==
    /\ NonBlank(ls[i])
    /\ \A j \in 1..(i - 1) : ~NonBlank(ls[j])
    /\ countLeadingSpaces(ls[i]) = 0
    /\ Keyless(ls[i])
    /\ \E j \in (i + 1)..Len(ls) : NonBlank(ls[j]) /\ countLeadingSpaces(ls[j]) = 0

\* C21: toonToJson returns no value for a document in which a line at indent 0 follows
\* the root scalar or the root array: the second root value is rejected, never taken in
\* place of the first
SecondRootRejected ==
    pc = "returned" => ~\E i \in 1..Len(lines) : SecondRootAfter(lines, i)

\* the value is an array, or an object whose first field holds one
HoldsArray(v) == v.t = "arr" \/ (v.t = "obj" /\ Len(v.o) > 0 /\ v.o[1].v.t = "arr")

\* that array and the key it is written under
ArrayOf(v) == IF v.t = "arr" THEN v.a ELSE v.o[1].v.a
ArrayKey(v) == IF v.t = "arr" THEN <<>> ELSE v.o[1].k

\* `key[n]`
HeaderText(key, n) == key \o <<"[">> \o NatToDigits(n) \o <<"]">>

\* the lines after the first that are indented: the lines under the array's header
LinesUnder(ls) == SelectSeq(Tail(ls), LAMBDA l : StartsWith(l, SP))

\* a row of a table: the values of the fields, each taken from the element by name
RowText(element, fields) ==
    <<SP, SP>> \o EncodeCells([f \in 1..Len(fields) |-> Lookup(element.o, fields[f])],
                             DEFAULT_DELIMITER).val

\* head and under are the one inline line of the array of scalars arr
IsInlineForm(head, under, key, arr) ==
    /\ under = <<>>
    /\ head = HeaderText(key, Len(arr)) \o <<":">>
                \o (IF Len(arr) > 0
                    THEN <<SP>> \o EncodeCells(arr, DEFAULT_DELIMITER).val ELSE <<>>)

\* head and under are the header with the fields of the first element and one row per
\* element
IsTabularForm(head, under, key, arr) ==
    /\ head = TabularHeaderText(key, Len(arr), Keys(arr[1].o))
    /\ under = [i \in 1..Len(arr) |-> RowText(arr[i], Keys(arr[1].o))]

\* head and under are the header of a list and lines that begin with an item
IsListForm(head, under, key, arr) ==
    /\ head = HeaderText(key, Len(arr)) \o <<":">>
    /\ under # <<>>
    /\ SubSeq(under[1], 1, 3) = <<SP, SP, "-">>
    /\ Len(SelectSeq(under, LAMBDA l : SubSeq(l, 1, 3) = <<SP, SP, "-">>)) = Len(arr)

\* the form the array arr is to be written in
FormChosen(head, under, key, arr) ==
    IF \A i \in 1..Len(arr) : isPrimitive(arr[i]) THEN IsInlineForm(head, under, key, arr)
    ELSE IF TabularEligible(arr) THEN IsTabularForm(head, under, key, arr)
    ELSE IsListForm(head, under, key, arr)

\* C22: jsonToToon writes an array inline iff all of its elements are scalars,
\* otherwise as a table iff all of them are non-empty objects with the key set of the
\* first one and scalar values only, otherwise as an expanded list; the cells of a
\* table's row are the element's values by field name, whatever the order of its keys
ArrayFormByPriority ==
    (pc # "encode" /\ encoded.err = "" /\ HoldsArray(value))
      => FormChosen(encoded.lines[1], LinesUnder(encoded.lines), ArrayKey(value),
                    ArrayOf(value))

\* [{a: 2, b: "x"}, {b: 1, a: "x"}] has been written as a table: the second row takes
\* a and b by name
RowsTakenByFieldName ==
    /\ pc # "encode"
    /\ value = Arr(<<Obj(<<Entry(KA, Two), Entry(KB, StrX)>>),
                     Obj(<<Entry(KB, One), Entry(KA, StrX)>>)>>)
    /\ encoded.lines = <<<<"[", "2", "]", "{", "a", ",", "b", "}", ":">>,
                         <<SP, SP, "2", ",", "x">>, <<SP, SP, "x", ",", "1">>>>

\* the line is a bare `-`
BareDash(line) == Trim(line) = <<"-">>

\* the first line after line i that is not deeper than it, Len(ls) + 1 when none is:
\* the line that closes what line i opened
ClosedAt(ls, i) ==
    LET closing == {j \in (i + 1)..Len(ls) :
                      NonBlank(ls[j]) /\ countLeadingSpaces(ls[j]) <= countLeadingSpaces(ls[i])}
    IN  IF closing = {} THEN Len(ls) + 1 ELSE CHOOSE j \in closing : \A k \in closing : j <= k

\* the number of values placed under the `-` of line i: the lines one level below it
\* before the line that closes it (the step of the documents is two spaces)
ValuesUnder(ls, i) ==
    Cardinality({j \in (i + 1)..(ClosedAt(ls, i) - 1) :
                   NonBlank(ls[j]) /\ countLeadingSpaces(ls[j]) = countLeadingSpaces(ls[i]) + 2})

\* the number of elements the items of the list `nums` contribute: one for an item with
\* its value on its line, one for a bare `-` with a value under it
ItemsContributed(ls) ==
    Cardinality({i \in 1..Len(ls) :
                   /\ countLeadingSpaces(ls[i]) = 2
                   /\ StartsWith(Trim(ls[i]), "-")
                   /\ BareDash(ls[i]) => ValuesUnder(ls, i) = 1})

RECURSIVE EscapesClosed(_, _)
EscapesClosed(tok, i) ==
    IF i > Len(tok) - 1 THEN TRUE
    ELSE IF tok[i] # BS THEN EscapesClosed(tok, i + 1)
    ELSE /\ i + 1 <= Len(tok) - 1
         /\ tok[i + 1] \in {BS, DQ, "n", "r", "t"}
         /\ EscapesClosed(tok, i + 2)

\* tok opens with a double quote and lacks a closing quote of its own, ends inside an
\* escape or uses an escape that is none
BadlyQuoted(tok) ==
    /\ tok # <<>>
    /\ tok[1] = DQ
    /\ ~(Len(tok) >= 2 /\ tok[Len(tok)] = DQ /\ EscapesClosed(tok, 2))

\* the key token of a line: what stands before its first colon outside quotes
KeyTokenOf(line) ==
    IF findUnquotedColon(line) = -1 THEN <<>> ELSE Trim(Prefix(line, findUnquotedColon(line)))

\* the value token of a line: what follows the `-` of a list item, the first colon
\* outside quotes, or the whole line when it has neither
ValueTokenOf(line) ==
    IF StartsWith(Trim(line), "-") THEN Trim(Slice(Trim(line), 1))
    ELSE IF findUnquotedColon(line) = -1 THEN Trim(line)
    ELSE Trim(Slice(line, findUnquotedColon(line) + 1))

\* C24: toonToJson returns no value for a document with a key or value token that
\* opens with a double quote and has no matching closing quote, ends inside an escape
\* or uses an escape other than backslash, quote, n, r, t; a token that is one double
\* quote is such a token
QuotedTokensClosed ==
    pc = "returned"
      => \A i \in 1..Len(lines) :
           ~BadlyQuoted(KeyTokenOf(lines[i])) /\ ~BadlyQuoted(ValueTokenOf(lines[i]))

\* outside[i]: s[i] is outside quoted spans; a span runs from a double quote to the
\* next double quote that no backslash inside the span escapes
RECURSIVE OutsideFrom(_, _, _, _, _)
OutsideFrom(s, i, inQuote, escape, outside) ==
    IF i > Len(s) THEN outside
    ELSE IF inQuote /\ escape THEN OutsideFrom(s, i + 1, TRUE, FALSE, Append(outside, FALSE))
    ELSE IF inQuote /\ s[i] = BS
         THEN OutsideFrom(s, i + 1, TRUE, TRUE, Append(outside, FALSE))
    ELSE IF s[i] = DQ THEN OutsideFrom(s, i + 1, ~inQuote, FALSE, Append(outside, FALSE))
    ELSE OutsideFrom(s, i + 1, inQuote, FALSE, Append(outside, ~inQuote))

\* the positions of c in s outside quoted spans
PlacesOutsideQuotes(s, c) ==
    {i \in 1..Len(s) : OutsideFrom(s, 1, FALSE, FALSE, <<>>)[i] /\ s[i] = c}

\* outside quoted spans the line has no colon, or the delimiter before its first colon
DelimiterBeforeColon(line, delimiter) ==
    \/ PlacesOutsideQuotes(line, ":") = {}
    \/ \E d \in PlacesOutsideQuotes(line, delimiter) :
         \A c \in PlacesOutsideQuotes(line, ":") : d < c

\* the errors the reading of a data row raises
RowErrors ==
    {"Unterminated quoted value.", "Tabular row width mismatch.",
     "Tabular array length exceeds limit.", "Node count exceeds limit.",
     "Disallowed key to prevent prototype pollution.",
     "Unquoted values may not contain leading or trailing whitespace.",
     "Unterminated string.", "Invalid escape sequence.", "Unterminated escape sequence.",
     "Numbers with leading zeros must be quoted.", "Invalid numeric value.",
     "Unquoted value contains the active delimiter."}

\* the next line, without its indent and its trailing blanks, and its indent level
NextLine == Slice(TrimEnd(lines[lineNo + 1]), countLeadingSpaces(TrimEnd(lines[lineNo + 1])))
NextLevel == countLeadingSpaces(TrimEnd(lines[lineNo + 1])) \div dec.indentStep

\* the next line is at exactly the indent of the tabular frame on top of the stack
TableOpenAtNextLine ==
    /\ NonBlank(lines[lineNo + 1])
    /\ dec.contexts # <<>>
    /\ Top(dec).type = "tabular"
    /\ countLeadingSpaces(TrimEnd(lines[lineNo + 1])) = Top(dec).indent * dec.indentStep

\* the rows of the table of the frame on top of the stack
RowsOfTop(rootValue) == GetAt(rootValue, Top(dec).path).a

\* the step has taken the line as a data row of the table: one more row and the same
\* frames, or an error of the row
TakenAsRow ==
    \/ /\ dec'.err = ""
       /\ dec'.contexts = dec.contexts
       /\ Len(RowsOfTop(dec'.root)) = Len(RowsOfTop(dec.root)) + 1
    \/ dec'.err \in RowErrors

\* the step has finalized and popped the table before it read the line: the length
\* error in strict mode when the rows are not as many as declared, else no new row, no
\* tabular frame left and no error of a row's width
TakenAgainstFrameBelow ==
    IF strictMode /\ Len(RowsOfTop(dec.root)) # Top(dec).expectedLength
    THEN dec'.err = "Tabular array length mismatch."
    ELSE /\ dec'.err \notin {"Tabular row width mismatch.", "Tabular array length exceeds limit."}
         /\ dec'.err = ""
              => /\ RowsOfTop(dec'.root) = RowsOfTop(dec.root)
                 /\ \A i \in 1..Len(dec'.contexts) : dec'.contexts[i].type # "tabular"

\* C25: a line at exactly the indent of the tabular frame on top of the stack is read
\* as a data row iff, outside quoted spans, the frame's delimiter stands before the
\* first colon or there is no colon; otherwise the table is finalized and popped and
\* gets no further row
TabularLineByDelimiterAndColon ==
    [][(DecodeLine /\ TableOpenAtNextLine)
         => IF DelimiterBeforeColon(NextLine, Top(dec).delimiter)
            THEN TakenAsRow ELSE TakenAgainstFrameBelow]_vars

\* the options of the call with strict: false in place of its strict
LenientOptions == [strict |-> FALSE] @@ options

\* C26: a document toonToJson has accepted in strict mode is accepted with strict:
\* false under the same limits, and the value returned is the same
LenientReadsWhatStrictReads ==
    (pc = "returned" /\ strictMode)
      => /\ toonToJson(text, LenientOptions).err = ""
         /\ Returned(toonToJson(text, LenientOptions)) = result

\* strict mode has returned {nums: [{a: 1}]} for a table under a ceiling of one
\* element, and so does lenient mode
TableReadAlikeUnderCeiling ==
    /\ pc = "returned"
    /\ strictMode
    /\ options = [maxArrayLength |-> 1]
    /\ lines = TabularDoc(1, 1)
    /\ result = Obj(<<Entry(NumsKey, Arr(<<Obj(<<Entry(KA, One)>>)>>))>>)
    /\ Returned(toonToJson(text, LenientOptions)) = result

\* the indents of the frames on the stack increase strictly from bottom to top
FramesIncreasing ==
    \A i \in 1..(Len(dec.contexts) - 1) : dec.contexts[i].indent < dec.contexts[i + 1].indent

\* the spaces the next line is indented by, and the step they are counted in: the
\* step of the document, which its first line that is not blank sets
NextSpaces == countLeadingSpaces(TrimEnd(lines[lineNo + 1]))
NextStep ==
    IF dec.indentStep # 0 THEN dec.indentStep ELSE IF NextSpaces = 0 THEN 2 ELSE NextSpaces

\* the next line is not blank and its indent is a whole number of levels
NextLineHasLevel == NonBlank(lines[lineNo + 1]) /\ NextSpaces >= 0 /\ NextSpaces % NextStep = 0

\* the indent of the frame that is on top of the stack once the frames deeper than
\* level are popped, 0 when none is left
OpenIndent(level) ==
    LET kept == {i \in 1..Len(dec.contexts) : dec.contexts[i].indent <= level}
    IN  IF kept = {} THEN 0 ELSE dec.contexts[CHOOSE i \in kept : \A j \in kept : j <= i].indent

\* the step has read a line of this level: it is the level of the frame on top, and
\* the frames below that level are as they were
AttachedAtTop(level) ==
    /\ level = OpenIndent(level)
    /\ \A i \in 1..Len(dec.contexts) :
         dec.contexts[i].indent < level
           => (i <= Len(dec'.contexts) /\ dec'.contexts[i] = dec.contexts[i])

\* C27: after every line the indents of the frames on the stack increase strictly from
\* bottom to top; a line toonToJson reads is at the level of the frame on top of the
\* stack (0 when the stack is empty) and leaves the frames below alone, so a line
\* deeper than the frame on top is rejected, in strict and in lenient mode
LinesAttachAtTopFrame ==
    /\ []FramesIncreasing
    /\ [][(DecodeLine /\ NextLineHasLevel /\ dec'.err = "")
            => AttachedAtTop(NextSpaces \div NextStep)]_vars

\* three frames are open after `a:`, `  b:` and `    a: 1`, at the indents 0, 1 and 2
ThreeFramesOpen ==
    /\ pc = "decode"
    /\ lineNo = 3
    /\ Len(dec.contexts) = 3
    /\ [i \in 1..3 |-> dec.contexts[i].indent] = <<0, 1, 2>>

\* the errors toonToJson raises for a limit
LimitErrors ==
    {"Maximum depth exceeded.", "Array length exceeds limit.",
     "Tabular array length exceeds limit.", "Node count exceeds limit."}

\* C28: a text jsonToToon has returned under the limits of the call is not rejected by
\* toonToJson under the same limits for a limit: no line of it is deeper than maxDepth
\* and no header declares more than maxArrayLength elements
WrittenTextWithinLimits ==
    pc = "decodeFailed" => dec.err \notin LimitErrors

\* C29: for each delimiter a caller may choose, the text jsonToToon writes with it
\* is read back by toonToJson in strict mode as the value it was written from, inline
\* arrays and tables of two and more cells and strings with a comma included
EveryDelimiterDecodes ==
    (pc \in CallsEnded /\ "delimiter" \in DOMAIN options)
      => (pc = "returned" /\ SameValue(result, value))

\* a call of urlToToon has been made and has ended
UrlCallMade == callNo > 0 /\ pc \in {"urlReturned", "urlFailed", "encodeFailed"}

\* what the last call leaves when no call was made before it
OwnOutcome == urlToToon(urlCalls[callNo], options, EmptyObj)

\* C30: urlToToon never modifies state shared between calls.  Whatever the keys of
\* the calls made, `__proto__`, `constructor` and `prototype` among their parts,
\* Object.prototype has the properties it had before the first call, and a call
\* leaves the object and returns the text it leaves and returns when it is the
\* only call made.
UrlCallsShareNothing ==
    /\ objectPrototype = EmptyObj
    /\ UrlCallMade =>
         /\ pc = OwnOutcome.pc
         /\ value = OwnOutcome.H.obj
         /\ encoded = OwnOutcome.encoded

====
